---- MODULE Spec2Model ----
(***************************************************************************)
(* The LEGO statistics aggregation pipeline (postprocess.ts and its Node   *)
(* port postprocess-node.mjs) and the dashboard's custom-range coverage    *)
(* aggregation (CoverageAnalysis.tsx).                                     *)
(*                                                                         *)
(* Numbers.  A percentage that the code rounds with toFixed(4) is kept as  *)
(* an integer count of 1/10000 percent (100% = 1000000); toFixed rounds    *)
(* the exact quotient half up.  The result of 0/0 is the value NaN, which  *)
(* compares false with everything.  Quantities are the non-negative        *)
(* integers the inventory tables hold; raw CSV fields that the code parses *)
(* are sequences of characters.                                            *)
(***************************************************************************)
EXTENDS Integers, Sequences, FiniteSets, TLC

VARIABLES
    colors,          \* parsed rows of colors.csv
    parts,           \* parsed rows of parts.csv
    sets,            \* parsed rows of sets.csv
    inventories,     \* parsed rows of inventories.csv
    inventoryParts,  \* parsed rows of inventory_parts.csv
    missingFiles,    \* the input files that cannot be read
    failingWrite,    \* the write of an output file that fails (1..5), 0 when none does
    pc,              \* "start"; "node", "ts": the program ran to its end; "node_failed",
                     \* "ts_failed": it was aborted by an error; "sampled"
    written,         \* names of the output files written, in the order of the writes
    exitCode,        \* exit code of the process, NotExited while it runs
    errorPrinted,    \* whether the error was printed by main().catch
    colorStats,      \* color-stats.json
    partFrequency,   \* part-frequency.json
    yearTrends,      \* year-trends.json
    coverageStats,   \* coverage-stats.json
    decadeColors,    \* decade-colors.json
    selectedPeriod,  \* CoverageAnalysis: the custom range selected, <<>> before any
    activeCoverage,  \* CoverageAnalysis: the coverage data shown for selectedPeriod
    curveData,       \* sampleCurvePoints: the argument data
    pointLimit,      \* sampleCurvePoints: the argument maxPoints
    curveSampled,    \* sampleCurvePoints(data, maxPoints)
    curveResampled,  \* sampleCurvePoints(sampleCurvePoints(data, maxPoints), maxPoints)
    delivered,       \* inventory_parts.csv.gz: the rows of the snapshot in the data directory
    cached,          \* inventory_parts.csv: the decompressed copy, when there is one
    activeTableDataset, \* App: the table dataset selected
    tableData,       \* App: the dataset whose rows the table shows, "" before any
    loading,         \* App: the loading flag
    pendingFetches,  \* App: per dataset, the fetches started and not yet settled
    filterMinYear,   \* DateRangeFilter: the prop minYear
    filterMaxYear,   \* DateRangeFilter: the prop maxYear
    activePreset,    \* DateRangeFilter: the preset shown as active
    customStart,     \* DateRangeFilter: the year of the From select
    customEnd,       \* DateRangeFilter: the year of the To select
    yearRange        \* App: the range last passed to onChange (setYearRange)

inputs == <<colors, parts, sets, inventories, inventoryParts>>
outputs == <<colorStats, partFrequency, yearTrends, coverageStats, decadeColors>>
dashboard == <<selectedPeriod, activeCoverage>>
faults == <<missingFiles, failingWrite>>
process == <<written, exitCode, errorPrinted>>
sampler == <<curveData, pointLimit, curveSampled, curveResampled>>
snapshots == <<delivered, cached>>
app == <<activeTableDataset, tableData, loading, pendingFetches>>
filter == <<filterMinYear, filterMaxYear, activePreset, customStart, customEnd, yearRange>>
vars == <<colors, parts, sets, inventories, inventoryParts, missingFiles, failingWrite, pc,
          written, exitCode, errorPrinted,
          colorStats, partFrequency, yearTrends, coverageStats, decadeColors,
          selectedPeriod, activeCoverage, curveData, pointLimit, curveSampled, curveResampled,
          delivered, cached, activeTableDataset, tableData, loading, pendingFetches,
          filterMinYear, filterMaxYear, activePreset, customStart, customEnd, yearRange>>

----------------------------------------------------------------------------
(* Bounds of the model *)

\* longest inventory_parts table enumerated row by row
MaxRows == 2
\* largest catalogue of distinct parts (one row each) that is enumerated
MaxCatalog == 223
\* longest curve given to sampleCurvePoints with at most FewPoints points asked for
MaxCurve == 16
FewPoints == 4
\* largest number of points asked of sampleCurvePoints, of curves up to one item longer
MaxPoints == 6
\* largest number of rows of the inventories tables enumerated for the attribution of rows
MaxInventories == 3
\* largest number of fetches of the dashboard in flight at a time
MaxFetches == 3
\* largest number of distinct colours enumerated for the decade aggregation
MaxDecadeColors == 11

----------------------------------------------------------------------------
(* JavaScript primitives *)

\* the value of 0/0, carried through toFixed and parseFloat
NaN == 0 - 1

Digits == {"0", "1", "2", "3", "4", "5", "6", "7", "8", "9"}

DigitValue(c) ==
    CASE c = "0" -> 0 [] c = "1" -> 1 [] c = "2" -> 2 [] c = "3" -> 3
      [] c = "4" -> 4 [] c = "5" -> 5 [] c = "6" -> 6 [] c = "7" -> 7
      [] c = "8" -> 8 [] c = "9" -> 9

RECURSIVE ParseDigits(_, _, _)
\* the value of the longest prefix of digits of s, from position i on
ParseDigits(s, i, acc) ==
    IF i > Len(s) \/ s[i] \notin Digits THEN acc
    ELSE ParseDigits(s, i + 1, acc * 10 + DigitValue(s[i]))

\* parseInt(s) of an unsigned field: the leading digits, NaN when there are none
ParseInt(s) ==
    IF s = <<>> \/ s[1] \notin Digits THEN [nan |-> TRUE, val |-> 0]
    ELSE [nan |-> FALSE, val |-> ParseDigits(s, 1, 0)]

\* parseInt(s) || 0
ParseIntOrZero(s) == IF ParseInt(s).nan THEN 0 ELSE ParseInt(s).val

\* a >= b of two numbers either of which may be NaN
GreaterEq(a, b) == a # NaN /\ b # NaN /\ a >= b

\* round half up of n/d, d > 0, n >= 0
RoundDiv(n, d) == (2 * n + d) \div (2 * d)

\* toFixed(4) and toFixed(2): the number of units in one percent
Scale4 == 10000
Scale2 == 100

\* the percentage cut after 4 decimals instead of rounded
TruncatedPercent4(q, total) == IF total = 0 THEN NaN ELSE (q * 100 * Scale4) \div total

\* parseFloat(((q / total) * 100).toFixed(4)), in 1/10000 percent
Percent4(q, total) == IF total = 0 THEN NaN ELSE RoundDiv(q * 100 * Scale4, total)

\* total > 0 ? parseFloat(((q / total) * 100).toFixed(4)) : 0
GuardedPercent4(q, total) == IF total > 0 THEN RoundDiv(q * 100 * Scale4, total) ELSE 0

\* the percentage cut after 2 decimals instead of rounded
TruncatedPercent2(q, total) == IF total = 0 THEN NaN ELSE (q * 100 * Scale2) \div total

\* parseFloat(((q / total) * 100).toFixed(2)), in 1/100 percent
Percent2(q, total) == IF total = 0 THEN NaN ELSE RoundDiv(q * 100 * Scale2, total)

\* Math.round(a / b) || 0
RoundOrZero(a, b) == IF b = 0 THEN 0 ELSE RoundDiv(a, b)

(* A Map is the sequence of its entries in insertion order. *)
MapHas(m, k) == \E i \in 1..Len(m) : m[i].key = k
MapIndex(m, k) == CHOOSE i \in 1..Len(m) : m[i].key = k
MapGet(m, k) == m[MapIndex(m, k)].val
MapSet(m, k, v) ==
    IF MapHas(m, k) THEN [m EXCEPT ![MapIndex(m, k)].val = v]
    ELSE Append(m, [key |-> k, val |-> v])
MapValues(m) == [i \in 1..Len(m) |-> m[i].val]

RECURSIVE FoldRange(_, _, _, _, _)
\* acc after "for (const r of rows) acc = Step(acc, r)" over rows[lo..hi]: the steps are
\* taken in order; the range is evaluated by halves, the left half to its end first
FoldRange(Step(_, _), rows, acc, lo, hi) ==
    IF lo > hi THEN acc
    ELSE IF lo = hi THEN Step(acc, rows[lo])
    ELSE LET mid == (lo + hi) \div 2
             left == FoldRange(Step, rows, acc, lo, mid)
         IN IF left = left THEN FoldRange(Step, rows, left, mid + 1, hi) ELSE left

\* a loop over all the rows, from the accumulator acc
Fold(Step(_, _), rows, acc) == FoldRange(Step, rows, acc, 1, Len(rows))

\* items.reduce((sum, c) => sum + c.quantity, 0)
SumQuantity(items) ==
    LET Step(sum, c) == sum + c.quantity
    IN Fold(Step, items, 0)

\* the list left in its insertion order
Unsorted(items) == items

\* the sort that puts an item in front of the items of its quantity placed before it
SortTiesReversed(items) ==
    LET Insert(sorted, x) ==
            LET k == Cardinality({j \in 1..Len(sorted) : sorted[j].quantity > x.quantity})
            IN SubSeq(sorted, 1, k) \o <<x>> \o SubSeq(sorted, k + 1, Len(sorted))
    IN Fold(Insert, items, <<>>)

\* items.sort((a, b) => b.quantity - a.quantity): stable, quantity descending; each item
\* goes behind the items already placed whose quantity is not smaller
SortByQuantityDesc(items) ==
    LET Insert(sorted, x) ==
            LET k == Cardinality({j \in 1..Len(sorted) : sorted[j].quantity >= x.quantity})
            IN SubSeq(sorted, 1, k) \o <<x>> \o SubSeq(sorted, k + 1, Len(sorted))
    IN Fold(Insert, items, <<>>)

----------------------------------------------------------------------------
(* Lookup maps *)

\* for (const c of colors) colorMap.set(c.id, c): the last row of an id wins
colorMap ==
    LET Step(m, c) == MapSet(m, c.id, c)
    IN Fold(Step, colors, <<>>)

\* for (const p of parts) partMap.set(p.part_num, p)
partMap ==
    LET Step(m, p) == MapSet(m, p.part_num, p)
    IN Fold(Step, parts, <<>>)

\* for (const s of sets) setMap.set(s.set_num, s)
setMap ==
    LET Step(m, st) == MapSet(m, st.set_num, st)
    IN Fold(Step, sets, <<>>)

\* the map in which a later row of an inventory id replaces the earlier one
lastInventoryToSetMap ==
    LET Step(m, inv) == MapSet(m, inv.id, inv.set_num)
    IN Fold(Step, inventories, <<>>)

\* if (!inventoryToSetMap.has(inv.id)) inventoryToSetMap.set(inv.id, inv.set_num)
inventoryToSetMap ==
    LET Step(m, inv) == IF MapHas(m, inv.id) THEN m ELSE MapSet(m, inv.id, inv.set_num)
    IN Fold(Step, inventories, <<>>)

----------------------------------------------------------------------------
(* Colour and part aggregation *)

\* `${color.rgb}-${color.name}`
ColorKey(color) == color.rgb \o "-" \o color.name

\* the entry a row adds to, or creates in, a colour aggregate
AddColor(agg, color, qty) ==
    IF MapHas(agg, ColorKey(color))
    THEN MapSet(agg, ColorKey(color),
                [MapGet(agg, ColorKey(color)) EXCEPT !.quantity = @ + qty])
    ELSE MapSet(agg, ColorKey(color),
                [name |-> color.name, color |-> "#" \o color.rgb, quantity |-> qty])

\* the colour aggregate that also counts the rows of unknown colours, under one key
ColorAggKeepingUnknown(rows, cmap) ==
    LET Step(agg, ip) ==
            AddColor(agg,
                     IF MapHas(cmap, ip.color_id) THEN MapGet(cmap, ip.color_id)
                     ELSE [name |-> "undefined", rgb |-> "undefined"],
                     ParseIntOrZero(ip.quantity))
    IN Fold(Step, rows, <<>>)

\* colorAgg after the loop over inventoryParts: rows of unknown colour are skipped
ColorAgg(rows, cmap) ==
    LET Step(agg, ip) ==
            IF ~MapHas(cmap, ip.color_id) THEN agg
            ELSE AddColor(agg, MapGet(cmap, ip.color_id), ParseIntOrZero(ip.quantity))
    IN Fold(Step, rows, <<>>)

\* the part-aggregate entry that keeps the quantity of the first row of a part only
AddPartOnce(agg, ip, qty) ==
    IF MapHas(agg, ip.part_num) THEN agg
    ELSE MapSet(agg, ip.part_num,
                [part_num |-> ip.part_num, quantity |-> qty, img_url |-> ip.img_url])

\* the part-aggregate entry of a row; an existing entry keeps its first non-empty img_url
AddPart(agg, ip, qty) ==
    IF MapHas(agg, ip.part_num)
    THEN LET existing == MapGet(agg, ip.part_num)
         IN MapSet(agg, ip.part_num,
                   [existing EXCEPT !.quantity = @ + qty,
                                    !.img_url = IF ip.img_url # "" /\ @ = ""
                                                THEN ip.img_url ELSE @])
    ELSE MapSet(agg, ip.part_num,
                [part_num |-> ip.part_num, quantity |-> qty, img_url |-> ip.img_url])

\* the part aggregate that skips the rows whose part_num is not in the part map
PartAggSkippingUnknown(rows) ==
    LET pm == partMap
        Step(agg, ip) ==
            IF ~MapHas(pm, ip.part_num) THEN agg
            ELSE AddPart(agg, ip, ParseIntOrZero(ip.quantity))
    IN Fold(Step, rows, <<>>)

\* partAgg after the loop over inventoryParts: every row is counted
PartAgg(rows) ==
    LET Step(agg, ip) == AddPart(agg, ip, ParseIntOrZero(ip.quantity))
    IN Fold(Step, rows, <<>>)

\* part?.name || "Unknown"
PartName(pmap, part_num) ==
    IF MapHas(pmap, part_num) /\ MapGet(pmap, part_num).name # ""
    THEN MapGet(pmap, part_num).name ELSE "Unknown"

\* the running sum left where it was
StaleCumulativeSum(sum, quantity) == sum

\* the running sum started again at every item
ResetCumulativeSum(sum, quantity) == quantity

\* colorCumulativeSum += c.quantity
CumulativeSum(sum, quantity) == sum + quantity

\* colorStats: sortedColors.map(...), with the running sum of the quantities
ColorStatsOf(sortedColors, totalPieces) ==
    LET Step(acc, c) ==
            LET sum == CumulativeSum(acc.sum, c.quantity)
            IN [sum |-> sum,
                out |-> Append(acc.out,
                    [name |-> c.name,
                     color |-> c.color,
                     quantity |-> c.quantity,
                     percent |-> Percent4(c.quantity, totalPieces),
                     rank |-> Len(acc.out) + 1,
                     cumulative_percent |-> Percent4(sum, totalPieces)])]
    IN Fold(Step, sortedColors, [sum |-> 0, out |-> <<>>]).out

\* partFrequency: sortedParts.map(...)
PartFrequencyOf(sortedParts, totalPartsQuantity, pmap) ==
    LET Step(acc, p) ==
            LET sum == CumulativeSum(acc.sum, p.quantity)
            IN [sum |-> sum,
                out |-> Append(acc.out,
                    [part_num |-> p.part_num,
                     name |-> PartName(pmap, p.part_num),
                     quantity |-> p.quantity,
                     image |-> p.img_url,
                     rank |-> Len(acc.out) + 1,
                     percent |-> Percent4(p.quantity, totalPartsQuantity),
                     cumulative_percent |-> Percent4(sum, totalPartsQuantity)])]
    IN Fold(Step, sortedParts, [sum |-> 0, out |-> <<>>]).out

\* the colour stage of main
ComputeColorStats ==
    LET sortedColors == SortByQuantityDesc(MapValues(ColorAgg(inventoryParts, colorMap)))
    IN ColorStatsOf(sortedColors, SumQuantity(sortedColors))

\* the part stage of main
ComputePartFrequency ==
    LET sortedParts == SortByQuantityDesc(MapValues(PartAgg(inventoryParts)))
    IN PartFrequencyOf(sortedParts, SumQuantity(sortedParts), partMap)

----------------------------------------------------------------------------
(* Year trends *)

\* the resolution that files a row of a missing set or of an unparsable year under 1949
ResolveYearOrFirst(ip, invMap, smap) ==
    IF ~MapHas(invMap, ip.inventory_id) \/ MapGet(invMap, ip.inventory_id) = ""
    THEN [ok |-> FALSE, year |-> 0, setNum |-> ""]
    ELSE LET setNum == MapGet(invMap, ip.inventory_id)
         IN IF ~MapHas(smap, setNum) \/ ParseInt(MapGet(smap, setNum).year).nan
            THEN [ok |-> TRUE, year |-> 1949, setNum |-> setNum]
            ELSE [ok |-> TRUE, year |-> ParseInt(MapGet(smap, setNum).year).val,
                  setNum |-> setNum]

\* inventory_id -> set_num -> set -> parseInt(set.year); ok is false where the code skips the row
ResolveYear(ip, invMap, smap) ==
    IF ~MapHas(invMap, ip.inventory_id) \/ MapGet(invMap, ip.inventory_id) = ""
    THEN [ok |-> FALSE, year |-> 0, setNum |-> ""]
    ELSE LET setNum == MapGet(invMap, ip.inventory_id)
         IN IF ~MapHas(smap, setNum) \/ ParseInt(MapGet(smap, setNum).year).nan
            THEN [ok |-> FALSE, year |-> 0, setNum |-> setNum]
            ELSE [ok |-> TRUE, year |-> ParseInt(MapGet(smap, setNum).year).val,
                  setNum |-> setNum]

\* map.set(k, (map.get(k) || 0) + qty)
MapAdd(m, k, qty) == MapSet(m, k, (IF MapHas(m, k) THEN MapGet(m, k) ELSE 0) + qty)

\* yearAgg: per year the pieces, the set numbers, and the quantity per colour id and per part
YearAgg(rows, cmap, invMap, smap) ==
    LET Step(agg, ip) ==
            LET qty == ParseIntOrZero(ip.quantity)
                r == ResolveYear(ip, invMap, smap)
            IN IF ~r.ok \/ r.year < 1949 THEN agg
               ELSE LET yearData == IF MapHas(agg, r.year) THEN MapGet(agg, r.year)
                                    ELSE [pieces |-> 0, sets |-> {}, colors |-> <<>>,
                                          parts |-> <<>>]
                    IN MapSet(agg, r.year,
                           [pieces |-> yearData.pieces + qty,
                            sets |-> yearData.sets \cup {r.setNum},
                            colors |-> IF MapHas(cmap, ip.color_id)
                                       THEN MapAdd(yearData.colors,
                                                   MapGet(cmap, ip.color_id).id, qty)
                                       ELSE yearData.colors,
                            parts |-> MapAdd(yearData.parts, ip.part_num, qty)])
    IN Fold(Step, rows, <<>>)

\* the scan that lets a later entry of the same quantity replace the top
TopKeyOrLater(m) ==
    LET Step(top, e) == IF e.val >= top.qty THEN [key |-> e.key, qty |-> e.val] ELSE top
    IN Fold(Step, m, [key |-> "", qty |-> 0])

\* the scan "if (qty > topQty) { top = key; topQty = qty }" over the entries of a map
TopKey(m) ==
    LET Step(top, e) == IF e.val > top.qty THEN [key |-> e.key, qty |-> e.val] ELSE top
    IN Fold(Step, m, [key |-> "", qty |-> 0])

\* one inventory-based YearTrend
InventoryYearTrend(year, data, cmap, pmap) ==
    LET topColorId == TopKey(data.colors).key
        topPartNum == TopKey(data.parts).key
        hasColor == MapHas(cmap, topColorId)
    IN [year |-> year,
        total_pieces |-> data.pieces,
        total_sets |-> Cardinality(data.sets),
        avg_pieces_per_set |-> RoundOrZero(data.pieces, Cardinality(data.sets)),
        unique_colors |-> Len(data.colors),
        unique_parts |-> Len(data.parts),
        top_color |-> IF hasColor /\ MapGet(cmap, topColorId).name # ""
                      THEN MapGet(cmap, topColorId).name ELSE "Unknown",
        top_color_hex |-> IF hasColor THEN "#" \o MapGet(cmap, topColorId).rgb
                          ELSE "#000000",
        top_part |-> topPartNum,
        top_part_name |-> PartName(pmap, topPartNum),
        data_source |-> "inventory"]

\* inventoryYearTrends, in the insertion order of yearAgg
InventoryYearTrends(yearAgg, cmap, pmap) ==
    [i \in 1..Len(yearAgg) |->
        InventoryYearTrend(yearAgg[i].key, yearAgg[i].val, cmap, pmap)]

\* the sets-only loop without its skip
NeverSkipInventoryYear(inventoryYears, year) == FALSE

\* if (inventoryYears.has(year)) continue
SkipInventoryYear(inventoryYears, year) == year \in inventoryYears

\* setsOnlyYearAgg: the sets of the years that have no inventory data
SetsOnlyYearAgg(rows, inventoryYears) ==
    LET Step(agg, set) ==
            LET y == ParseInt(set.year)
            IN IF y.nan \/ y.val < 1949 THEN agg
               ELSE IF SkipInventoryYear(inventoryYears, y.val) THEN agg
               ELSE LET yearData == IF MapHas(agg, y.val) THEN MapGet(agg, y.val)
                                    ELSE [sets |-> {}, totalPieces |-> 0]
                    IN MapSet(agg, y.val,
                           [sets |-> yearData.sets \cup {set.set_num},
                            totalPieces |-> yearData.totalPieces
                                            + ParseIntOrZero(set.num_parts)])
    IN Fold(Step, rows, <<>>)

\* JSON null, in a text field and in a count
Null == "null"
NullCount == 0 - 1

\* setsOnlyYearTrends
SetsOnlyYearTrends(agg) ==
    [i \in 1..Len(agg) |->
        [year |-> agg[i].key,
         total_pieces |-> agg[i].val.totalPieces,
         total_sets |-> Cardinality(agg[i].val.sets),
         avg_pieces_per_set |->
             RoundOrZero(agg[i].val.totalPieces, Cardinality(agg[i].val.sets)),
         unique_colors |-> NullCount,
         unique_parts |-> NullCount,
         top_color |-> Null,
         top_color_hex |-> Null,
         top_part |-> Null,
         top_part_name |-> Null,
         data_source |-> "sets_only"]]

\* trends.sort((a, b) => b.year - a.year): stable, year descending
SortByYearDesc(trends) ==
    LET Insert(sorted, x) ==
            LET k == Cardinality({j \in 1..Len(sorted) : sorted[j].year >= x.year})
            IN SubSeq(sorted, 1, k) \o <<x>> \o SubSeq(sorted, k + 1, Len(sorted))
    IN Fold(Insert, trends, <<>>)

\* the year-trend stage of main
ComputeYearTrends ==
    LET cmap == colorMap
        yearAgg == YearAgg(inventoryParts, cmap, inventoryToSetMap, setMap)
        inventoryYearTrends == InventoryYearTrends(yearAgg, cmap, partMap)
        inventoryYears == {inventoryYearTrends[i].year : i \in 1..Len(inventoryYearTrends)}
        setsOnlyYearTrends == SetsOnlyYearTrends(SetsOnlyYearAgg(sets, inventoryYears))
    IN SortByYearDesc(inventoryYearTrends \o setsOnlyYearTrends)

----------------------------------------------------------------------------
(* Coverage *)

\* the thresholds of a PeriodCoverageData by key: the whole percent, and its units
ThresholdKeys == {"50", "80", "90", "95", "99"}
ThresholdLevel(k) ==
    CASE k = "50" -> 50 [] k = "80" -> 80 [] k = "90" -> 90 [] k = "95" -> 95 [] k = "99" -> 99
ThresholdValue(k) == ThresholdLevel(k) * Scale4

\* the scan of findThresholdIndex with the comparison cmp: i counts the items passed,
\* found is set by the return inside the loop
ThresholdScan(items, threshold, Cmp(_, _)) ==
    LET Step(acc, item) ==
            IF acc.found THEN acc
            ELSE IF Cmp(item.cumulative_percent, threshold)
                 THEN [found |-> TRUE, i |-> acc.i + 1]
                 ELSE [found |-> FALSE, i |-> acc.i + 1]
        end == Fold(Step, items, [found |-> FALSE, i |-> 0])
    IN IF end.found THEN end.i ELSE Len(items)

\* the scan with the comparison strict
FindThresholdIndexStrict(items, threshold) ==
    LET Greater(a, b) == a # NaN /\ b # NaN /\ a > b
    IN ThresholdScan(items, threshold, Greater)

\* the scan with the comparison turned round
FindThresholdIndexReversed(items, threshold) ==
    LET LessEq(a, b) == a # NaN /\ b # NaN /\ a <= b
    IN ThresholdScan(items, threshold, LessEq)

\* findThresholdIndex(items, threshold): a 1-based count
FindThresholdIndex(items, threshold) == ThresholdScan(items, threshold, GreaterEq)

Min(a, b) == IF a <= b THEN a ELSE b

\* getThresholdItems(items, threshold)
GetThresholdItems(items, threshold) ==
    LET count == FindThresholdIndex(items, threshold)
    IN [count |-> count,
        items |-> [i \in 1..Min(count, 10) |->
                      [name |-> items[i].name,
                       percent |-> items[i].percent,
                       cumulative_percent |-> items[i].cumulative_percent]]]

\* buildCoverageData(items, totalQuantity)
BuildCoverageData(items, totalQuantity) ==
    [total_unique |-> Len(items),
     total_quantity |-> totalQuantity,
     thresholds |-> [k \in ThresholdKeys |-> GetThresholdItems(items, ThresholdValue(k))]]

\* the coverage object postprocess-node.mjs writes: it has no by_period
NodeCoverageStats(pf, totalPartsQuantity, cs, totalPieces) ==
    [parts |-> BuildCoverageData(pf, totalPartsQuantity),
     colors |-> BuildCoverageData(cs, totalPieces),
     has_by_period |-> FALSE,
     by_period |-> <<>>]

RECURSIVE Pow(_, _)
Pow(b, e) == IF e = 0 THEN 1 ELSE b * Pow(b, e - 1)

\* Math.max(1, Math.round(Math.pow(10, (i / maxPoints) * Math.log10(n)))): the r with
\* r - 1/2 <= n^(i/maxPoints) < r + 1/2
LogRank(i, maxPoints, n) ==
    CHOOSE r \in 1..n :
        /\ Pow(2 * r - 1, maxPoints) <= Pow(2, maxPoints) * Pow(n, i)
        /\ Pow(2, maxPoints) * Pow(n, i) < Pow(2 * r + 1, maxPoints)

\* seenRanks.has(rank), seenRanks being the ranks of the points sampled by the loop
SeenRank(sampled, rank) == \E j \in 1..Len(sampled) : sampled[j].rank = rank

\* sampled.sort((a, b) => a.rank - b.rank): stable, rank ascending
SortByRank(points) ==
    LET Insert(sorted, x) ==
            LET k == Cardinality({j \in 1..Len(sorted) : sorted[j].rank <= x.rank})
            IN SubSeq(sorted, 1, k) \o <<x>> \o SubSeq(sorted, k + 1, Len(sorted))
    IN Fold(Insert, points, <<>>)

\* sampled after the loop "for (let i = 0; i < maxPoints; i++)"
SampleLoop(data, maxPoints) ==
    LET Step(sampled, i) ==
            LET idx == Min(LogRank(i, maxPoints, Len(data)), Len(data))
            IN IF SeenRank(sampled, data[idx].rank) THEN sampled
               ELSE Append(sampled, data[idx])
    IN Fold(Step, [k \in 1..maxPoints |-> k - 1], <<>>)

\* the sampling that also thins out a non-empty curve of exactly maxPoints items
SampleUnlessShorter(data, maxPoints) ==
    IF Len(data) < maxPoints \/ Len(data) = 0 THEN data
    ELSE LET sampled == SampleLoop(data, maxPoints)
             withFirst == IF SeenRank(sampled, data[1].rank) THEN sampled
                          ELSE <<data[1]>> \o sampled
             withLast == IF SeenRank(sampled, data[Len(data)].rank) THEN withFirst
                         ELSE Append(withFirst, data[Len(data)])
         IN SortByRank(withLast)

\* the sampling that leaves the last point out unless the loop reached it
SampleWithoutLastPoint(data, maxPoints) ==
    IF Len(data) <= maxPoints THEN data
    ELSE LET sampled == SampleLoop(data, maxPoints)
         IN SortByRank(IF SeenRank(sampled, data[1].rank) THEN sampled
                       ELSE <<data[1]>> \o sampled)

\* sampleCurvePoints(data, maxPoints)
SampleCurvePoints(data, maxPoints) ==
    IF Len(data) <= maxPoints THEN data
    ELSE LET sampled == SampleLoop(data, maxPoints)
             withFirst == IF SeenRank(sampled, data[1].rank) THEN sampled
                          ELSE <<data[1]>> \o sampled
             withLast == IF SeenRank(sampled, data[Len(data)].rank) THEN withFirst
                         ELSE Append(withFirst, data[Len(data)])
         IN SortByRank(withLast)

\* maxPoints: number = 500
DefaultMaxPoints == 500

\* items.map(p => ({rank, name, quantity, cumulative_percent}))
CurveOf(items) ==
    [i \in 1..Len(items) |->
        [rank |-> items[i].rank, name |-> items[i].name,
         quantity |-> items[i].quantity,
         cumulative_percent |-> items[i].cumulative_percent]]

\* new Date().getFullYear()
CurrentYear == 2026

\* the skip that also drops the rows of the first year of the period
SkipUntilAfter(year, minYear) == year <= minYear

\* if (isNaN(year) || year < minYear) continue: the test on the year
SkipBefore(year, minYear) == year < minYear

\* periodPartAgg and periodColorAgg of the rows whose year is at least minYear
PeriodAgg(rows, cmap, invMap, smap, minYear) ==
    LET Step(agg, ip) ==
            LET qty == ParseIntOrZero(ip.quantity)
                r == ResolveYear(ip, invMap, smap)
            IN IF ~r.ok \/ SkipBefore(r.year, minYear) THEN agg
               ELSE [partAgg |->
                         IF MapHas(agg.partAgg, ip.part_num)
                         THEN MapSet(agg.partAgg, ip.part_num,
                                     [MapGet(agg.partAgg, ip.part_num)
                                         EXCEPT !.quantity = @ + qty])
                         ELSE MapSet(agg.partAgg, ip.part_num,
                                     [part_num |-> ip.part_num, quantity |-> qty]),
                     colorAgg |->
                         IF MapHas(cmap, ip.color_id)
                         THEN AddColor(agg.colorAgg, MapGet(cmap, ip.color_id), qty)
                         ELSE agg.colorAgg]
    IN Fold(Step, rows, [partAgg |-> <<>>, colorAgg |-> <<>>])

\* periodPartFrequency: the percentages are 0 when the period total is 0
PeriodPartFrequency(periodParts, periodPartsTotal, pmap) ==
    LET Step(acc, p) ==
            LET sum == CumulativeSum(acc.sum, p.quantity)
            IN [sum |-> sum,
                out |-> Append(acc.out,
                    [name |-> PartName(pmap, p.part_num),
                     percent |-> GuardedPercent4(p.quantity, periodPartsTotal),
                     cumulative_percent |-> GuardedPercent4(sum, periodPartsTotal),
                     rank |-> Len(acc.out) + 1,
                     quantity |-> p.quantity])]
    IN Fold(Step, periodParts, [sum |-> 0, out |-> <<>>]).out

\* periodColorStats
PeriodColorStats(periodColors, periodColorsTotal) ==
    LET Step(acc, c) ==
            LET sum == CumulativeSum(acc.sum, c.quantity)
            IN [sum |-> sum,
                out |-> Append(acc.out,
                    [name |-> c.name,
                     percent |-> GuardedPercent4(c.quantity, periodColorsTotal),
                     cumulative_percent |-> GuardedPercent4(sum, periodColorsTotal),
                     rank |-> Len(acc.out) + 1,
                     quantity |-> c.quantity])]
    IN Fold(Step, periodColors, [sum |-> 0, out |-> <<>>]).out

\* computePeriodCoverage(minYear)
ComputePeriodCoverage(minYear) ==
    LET agg == PeriodAgg(inventoryParts, colorMap, inventoryToSetMap, setMap, minYear)
        periodParts == SortByQuantityDesc(MapValues(agg.partAgg))
        periodPartsTotal == SumQuantity(periodParts)
        periodPartFrequency == PeriodPartFrequency(periodParts, periodPartsTotal, partMap)
        periodColors == SortByQuantityDesc(MapValues(agg.colorAgg))
        periodColorsTotal == SumQuantity(periodColors)
        periodColorStats == PeriodColorStats(periodColors, periodColorsTotal)
    IN [parts |-> BuildCoverageData(periodPartFrequency, periodPartsTotal),
        colors |-> BuildCoverageData(periodColorStats, periodColorsTotal),
        parts_curve |-> SampleCurvePoints(CurveOf(periodPartFrequency), DefaultMaxPoints),
        colors_curve |-> SampleCurvePoints(CurveOf(periodColorStats), DefaultMaxPoints)]

\* the coverage object postprocess.ts writes; by_period is a map from period key to data
TsCoverageStats(pf, totalPartsQuantity, cs, totalPieces) ==
    LET allTimePartsCoverage == BuildCoverageData(pf, totalPartsQuantity)
        allTimeColorsCoverage == BuildCoverageData(cs, totalPieces)
        allTime == [parts |-> allTimePartsCoverage,
                    colors |-> allTimeColorsCoverage,
                    parts_curve |-> SampleCurvePoints(CurveOf(pf), DefaultMaxPoints),
                    colors_curve |-> SampleCurvePoints(CurveOf(cs), DefaultMaxPoints)]
        last5YearsCoverage == ComputePeriodCoverage(CurrentYear - 5)
        last10YearsCoverage == ComputePeriodCoverage(CurrentYear - 10)
    IN [parts |-> allTimePartsCoverage,
        colors |-> allTimeColorsCoverage,
        has_by_period |-> TRUE,
        by_period |-> <<[key |-> "all_time", val |-> allTime],
                        [key |-> "last_5_years", val |-> last5YearsCoverage],
                        [key |-> "last_10_years", val |-> last10YearsCoverage]>>]

----------------------------------------------------------------------------
(* Decade colours *)

\* const decades = [{decade: "1950s", startYear: 1950, endYear: 1959}, ...]
Decades ==
    [i \in 1..8 |-> [decade |-> ToString(1940 + 10 * i) \o "s",
                     startYear |-> 1940 + 10 * i,
                     endYear |-> 1949 + 10 * i]]

\* decades.find(d => year >= d.startYear && year <= d.endYear): its index, 0 when none
FindDecade(year) ==
    LET hits == {i \in 1..Len(Decades) :
                    year >= Decades[i].startYear /\ year <= Decades[i].endYear}
    IN IF hits = {} THEN 0 ELSE CHOOSE i \in hits : \A j \in hits : i <= j

\* decadeColorAgg: for each decade, in the order of decades, its colour aggregate
DecadeColorAgg(rows, cmap, invMap, smap) ==
    LET Step(agg, ip) ==
            LET qty == ParseIntOrZero(ip.quantity)
                r == ResolveYear(ip, invMap, smap)
            IN IF ~r.ok \/ FindDecade(r.year) = 0 THEN agg
               ELSE IF ~MapHas(cmap, ip.color_id) THEN agg
               ELSE [agg EXCEPT ![FindDecade(r.year)] =
                        AddColor(@, MapGet(cmap, ip.color_id), qty)]
    IN Fold(Step, rows, [i \in 1..Len(Decades) |-> <<>>])

\* the entry of one decade before the filter: its top 10 colours, none when the total is 0
DecadeEntry(d, colorsList) ==
    LET total == SumQuantity(colorsList)
        sorted == SortByQuantityDesc(colorsList)
    IN [decade |-> d.decade,
        colors |-> IF total = 0 THEN <<>>
                   ELSE [i \in 1..Min(Len(sorted), 10) |->
                            [name |-> sorted[i].name,
                             color |-> sorted[i].color,
                             percent |-> Percent2(sorted[i].quantity, total)]]]

\* the entries of all the decades, the empty ones included
KeepEmptyEntries(entries) == entries

\* entries.filter(d => d.colors.length > 0)
FilterNonEmpty(entries) ==
    LET Step(kept, d) == IF Len(d.colors) > 0 THEN Append(kept, d) ELSE kept
    IN Fold(Step, entries, <<>>)

\* the decade stage of main
ComputeDecadeColors ==
    LET agg == DecadeColorAgg(inventoryParts, colorMap, inventoryToSetMap, setMap)
    IN FilterNonEmpty([i \in 1..Len(Decades) |-> DecadeEntry(Decades[i], MapValues(agg[i]))])

----------------------------------------------------------------------------
(* CoverageAnalysis: the coverage of a custom year range *)

\* `year_${year}`
YearKey(year) == "year_" \o ToString(year)

\* for (const item of curve) {...}: the quantities by item name and the running total
AddCurve(acc, curve) ==
    LET Step(a, item) ==
            [quantities |->
                 IF MapHas(a.quantities, item.name)
                 THEN MapSet(a.quantities, item.name,
                             [MapGet(a.quantities, item.name)
                                 EXCEPT !.quantity = @ + item.quantity])
                 ELSE MapSet(a.quantities, item.name,
                             [name |-> item.name, quantity |-> item.quantity]),
             total |-> a.total + item.quantity]
    IN Fold(Step, curve, acc)

\* for (let year = startYear; year <= endYear; year++): a year with no bucket is skipped
CollectYears(byPeriod, startYear, endYear) ==
    LET Step(acc, year) ==
            IF ~MapHas(byPeriod, YearKey(year)) THEN acc
            ELSE LET yearData == MapGet(byPeriod, YearKey(year))
                 IN [parts |-> AddCurve(acc.parts, yearData.parts_curve),
                     colors |-> AddCurve(acc.colors, yearData.colors_curve)]
    IN Fold(Step, [i \in 1..(IF endYear < startYear THEN 0 ELSE endYear - startYear + 1)
                      |-> startYear + i - 1],
            [parts |-> [quantities |-> <<>>, total |-> 0],
             colors |-> [quantities |-> <<>>, total |-> 0]])

\* (a / b) * 100, not rounded: the fraction num/den of a percent; NaN is den = 0
Fraction(a, b) == [num |-> a * 100, den |-> b]

\* p.cumulative_percent >= level, level a whole percent
FractionGreaterEq(f, level) == f.den # 0 /\ f.num >= level * f.den

\* partsCurve / colorsCurve: rank and unrounded cumulative percent
CustomCurve(sorted, total) ==
    LET Step(acc, item) ==
            LET sum == acc.sum + item.quantity
            IN [sum |-> sum,
                out |-> Append(acc.out,
                    [rank |-> Len(acc.out) + 1, name |-> item.name,
                     quantity |-> item.quantity,
                     cumulative_percent |-> Fraction(sum, total)])]
    IN Fold(Step, sorted, [sum |-> 0, out |-> <<>>]).out

\* curve.findIndex(p => p.cumulative_percent >= level), then index + 1 or the length
CustomThreshold(curve, total, level) ==
    LET hits == {i \in 1..Len(curve) : FractionGreaterEq(curve[i].cumulative_percent, level)}
        count == IF hits = {} THEN Len(curve)
                 ELSE CHOOSE i \in hits : \A j \in hits : i <= j
    IN [count |-> count,
        items |-> [i \in 1..Min(10, count) |->
                      [name |-> curve[i].name,
                       percent |-> Fraction(curve[i].quantity, total),
                       cumulative_percent |-> curve[i].cumulative_percent]]]

\* aggregateYearData(coverageStats, startYear, endYear)
AggregateYearData(stats, startYear, endYear) ==
    IF ~stats.has_by_period
    THEN [parts |-> stats.parts, colors |-> stats.colors, has_curves |-> FALSE,
          parts_curve |-> <<>>, colors_curve |-> <<>>]
    ELSE LET acc == CollectYears(stats.by_period, startYear, endYear)
             sortedParts == SortByQuantityDesc(MapValues(acc.parts.quantities))
             sortedColors == SortByQuantityDesc(MapValues(acc.colors.quantities))
             partsCurve == CustomCurve(sortedParts, acc.parts.total)
             colorsCurve == CustomCurve(sortedColors, acc.colors.total)
         IN [parts |-> [total_unique |-> Len(sortedParts),
                        total_quantity |-> acc.parts.total,
                        thresholds |-> [k \in ThresholdKeys |->
                            CustomThreshold(partsCurve, acc.parts.total,
                                            ThresholdLevel(k))]],
             colors |-> [total_unique |-> Len(sortedColors),
                         total_quantity |-> acc.colors.total,
                         thresholds |-> [k \in ThresholdKeys |->
                             CustomThreshold(colorsCurve, acc.colors.total,
                                             ThresholdLevel(k))]],
             has_curves |-> TRUE,
             parts_curve |-> partsCurve,
             colors_curve |-> colorsCurve]

----------------------------------------------------------------------------
(* The inputs enumerated *)

RECURSIVE DigitsOf(_)
\* the decimal field of a natural number
DigitsOf(n) == IF n < 10 THEN <<ToString(n)>> ELSE Append(DigitsOf(n \div 10), ToString(n % 10))

Red == [id |-> "4", name |-> "Red", rgb |-> "C91A09"]
Blue == [id |-> "1", name |-> "Blue", rgb |-> "0055BF"]
Brick == [part_num |-> "3001", name |-> "Brick 2 x 4"]
Plate == [part_num |-> "3023", name |-> "Plate 1 x 2"]
SetRow(num, year, numParts) == [set_num |-> num, year |-> year, num_parts |-> numParts]
Inv(id, num) == [id |-> id, set_num |-> num]

\* the reference tables: complete; with a colour, a part and a year below 1949 missing;
\* with a repeated inventory id and an unparsable year; with a missing set; without the
\* sets and inventories files; with a repeated set number
Worlds ==
    { [colors |-> <<Red, Blue>>, parts |-> <<Brick, Plate>>,
       sets |-> <<SetRow("1-1", DigitsOf(2024), DigitsOf(5)),
                  SetRow("2-1", DigitsOf(2018), DigitsOf(7)),
                  SetRow("3-1", DigitsOf(1995), DigitsOf(4))>>,
       inventories |-> <<Inv("10", "1-1"), Inv("20", "2-1")>>],
      [colors |-> <<Red>>, parts |-> <<Brick>>,
       sets |-> <<SetRow("1-1", DigitsOf(2024), DigitsOf(5)),
                  SetRow("2-1", DigitsOf(1948), DigitsOf(7)),
                  SetRow("3-1", DigitsOf(2024), <<>>)>>,
       inventories |-> <<Inv("10", "1-1"), Inv("20", "2-1")>>],
      [colors |-> <<Red, Blue>>, parts |-> <<Brick>>,
       sets |-> <<SetRow("1-1", DigitsOf(1995), DigitsOf(5)),
                  SetRow("2-1", <<"?">>, DigitsOf(7)),
                  SetRow("3-1", DigitsOf(1995), DigitsOf(4))>>,
       inventories |-> <<Inv("10", "1-1"), Inv("10", "2-1"), Inv("20", "2-1")>>],
      [colors |-> <<Red>>, parts |-> <<Brick, Plate>>,
       sets |-> <<SetRow("1-1", DigitsOf(2018), DigitsOf(5))>>,
       inventories |-> <<Inv("10", "1-1"), Inv("20", "2-1")>>],
      [colors |-> <<Red, Blue>>, parts |-> <<Brick, Plate>>,
       sets |-> <<>>, inventories |-> <<>>],
      [colors |-> <<Red, Blue>>, parts |-> <<Brick, Plate>>,
       sets |-> <<SetRow("1-1", DigitsOf(1985), DigitsOf(5)),
                  SetRow("2-1", DigitsOf(1995), DigitsOf(7)),
                  SetRow("2-1", DigitsOf(2021), DigitsOf(7))>>,
       inventories |-> <<Inv("20", "2-1"), Inv("10", "1-1")>>] }

InventoryIds == {"10", "20"}
PartNums == {"3001", "3023"}
ColorIds == {"4", "1"}
QuantityFields == {<<>>, <<"1">>, <<"3">>}

InventoryPartRows ==
    [inventory_id : InventoryIds, part_num : PartNums, color_id : ColorIds,
     quantity : QuantityFields, img_url : {""}]

\* the inventory_parts tables of at most MaxRows rows
SmallTables == UNION {[1..n -> InventoryPartRows] : n \in 0..MaxRows}

\* a catalogue: n rows of n distinct part numbers, one piece each, in two colours
Catalog(n) ==
    [i \in 1..n |-> [inventory_id |-> "10", part_num |-> ToString(3000 + i),
                     color_id |-> IF i % 2 = 0 THEN "4" ELSE "1",
                     quantity |-> <<"1">>, img_url |-> ""]]

----------------------------------------------------------------------------
(* The programs *)

NoOutput == <<>>

\* the input files, and the output files in the order main writes them
InputFiles == {"colors", "parts", "sets", "inventories", "inventory_parts"}
OutputFiles ==
    <<"color-stats", "part-frequency", "year-trends", "coverage-stats", "decade-colors">>

\* the exit code of a process that has not exited
NotExited == 0 - 1

\* no decompressed copy of the file
NoCache == [present |-> FALSE, rows |-> <<>>]

\* the file was read before: the rows in the data directory are those of inventoryParts
InitNoSnapshot ==
    /\ delivered = inventoryParts
    /\ cached = NoCache

\* type TableDataSet = 'parts' | 'colors' | 'trends'
TableDatasets == {"parts", "colors", "trends"}

\* App at its first render: useState('parts'), useState([]), useState(true), and the
\* effect of the first render has started the fetch of the parts file
InitApp ==
    /\ activeTableDataset = "parts"
    /\ tableData = ""
    /\ loading = TRUE
    /\ pendingFetches = [d \in TableDatasets |-> IF d = "parts" THEN 1 ELSE 0]

\* getInitialPreset
GetInitialPreset(initialRange, lo, hi) ==
    IF initialRange.startYear = lo /\ initialRange.endYear = hi THEN "allTime"
    ELSE IF initialRange.startYear = CurrentYear - 5 /\ initialRange.endYear = hi
    THEN "last5"
    ELSE IF initialRange.startYear = CurrentYear - 10 /\ initialRange.endYear = hi
    THEN "last10"
    ELSE "custom"

\* DateRangeFilter at its first render with the props minYear, maxYear and initialRange
InitFilter(lo, hi, initialRange) ==
    /\ filterMinYear = lo
    /\ filterMaxYear = hi
    /\ activePreset = GetInitialPreset(initialRange, lo, hi)
    /\ customStart = initialRange.startYear
    /\ customEnd = initialRange.endYear
    /\ yearRange = initialRange

\* the dashboard as App renders it: <DateRangeFilter minYear={1949} maxYear={currentYear}
\* initialRange={yearRange}> with useState({startYear: 1949, endYear: currentYear})
InitDashboard ==
    /\ InitApp
    /\ InitFilter(1949, CurrentYear, [startYear |-> 1949, endYear |-> CurrentYear])

InitOutputs ==
    /\ pc = "start"
    /\ written = <<>>
    /\ exitCode = NotExited
    /\ errorPrinted = FALSE
    /\ colorStats = NoOutput
    /\ partFrequency = NoOutput
    /\ yearTrends = NoOutput
    /\ coverageStats = NoOutput
    /\ decadeColors = NoOutput
    /\ selectedPeriod = <<>>
    /\ activeCoverage = NoOutput

\* every file is read and every write succeeds
InitNoFault ==
    /\ missingFiles = {}
    /\ failingWrite = 0

\* sampleCurvePoints is given its default arguments
InitNoCurve ==
    /\ curveData = <<>>
    /\ pointLimit = DefaultMaxPoints
    /\ curveSampled = <<>>
    /\ curveResampled = <<>>

InitWorld ==
    \E w \in Worlds :
        /\ colors = w.colors
        /\ parts = w.parts
        /\ sets = w.sets
        /\ inventories = w.inventories

Init ==
    /\ InitWorld
    /\ inventoryParts \in SmallTables
    /\ InitNoFault
    /\ InitNoCurve
    /\ InitOutputs
    /\ InitNoSnapshot
    /\ InitDashboard

\* the value the k-th writeJSON leaves in its file: the writes before the failing one
\* have written theirs, the failing one and those after it nothing
FileAfterWrites(k, value) == IF failingWrite = 0 \/ k < failingWrite THEN value ELSE NoOutput

\* the five writeJSON calls of main, in order, then the end of the process: exit code 0
\* after the last write, and after a failing write the handler of main().catch, which
\* prints the error and leaves the process with catchExitCode
WriteOutputs(cs, pf, yt, cov, dc, done, failed, catchExitCode) ==
    /\ colorStats' = FileAfterWrites(1, cs)
    /\ partFrequency' = FileAfterWrites(2, pf)
    /\ yearTrends' = FileAfterWrites(3, yt)
    /\ coverageStats' = FileAfterWrites(4, cov)
    /\ decadeColors' = FileAfterWrites(5, dc)
    /\ written' = SubSeq(OutputFiles, 1,
                         IF failingWrite = 0 THEN Len(OutputFiles) ELSE failingWrite - 1)
    /\ pc' = IF failingWrite = 0 THEN done ELSE failed
    /\ exitCode' = IF failingWrite = 0 THEN 0 ELSE catchExitCode
    /\ errorPrinted' = (failingWrite # 0)

\* a read throws before any aggregation: main().catch prints the error, nothing is written
AbortOnRead(failed, catchExitCode) ==
    /\ pc' = failed
    /\ exitCode' = catchExitCode
    /\ errorPrinted' = TRUE
    /\ written' = <<>>
    /\ UNCHANGED outputs

\* postprocess-node.mjs: main, from the files read to the five JSON files and the exit:
\* readCSVFile throws on any missing file, and main().catch calls process.exit(1)
MainNode ==
    /\ pc = "start"
    /\ IF missingFiles # {}
       THEN AbortOnRead("node_failed", 1)
       ELSE LET cs == ComputeColorStats
                pf == ComputePartFrequency
            IN WriteOutputs(cs, pf, ComputeYearTrends,
                            NodeCoverageStats(pf, SumQuantity(pf), cs, SumQuantity(cs)),
                            ComputeDecadeColors, "node", "node_failed", 1)
    /\ UNCHANGED <<inputs, faults, dashboard, sampler, snapshots, app, filter>>

\* the files postprocess.ts reads outside a try block
TsRequiredFiles == {"colors", "parts", "inventory_parts"}

\* postprocess.ts: main, from the files read to the five JSON files and the exit: a
\* missing sets or inventories file leaves the table empty, and main().catch only
\* prints the error, so the process ends with exit code 0
MainTs ==
    /\ pc = "start"
    /\ IF missingFiles \cap TsRequiredFiles # {}
       THEN AbortOnRead("ts_failed", 0)
       ELSE LET cs == ComputeColorStats
                pf == ComputePartFrequency
            IN WriteOutputs(cs, pf, ComputeYearTrends,
                            TsCoverageStats(pf, SumQuantity(pf), cs, SumQuantity(cs)),
                            ComputeDecadeColors, "ts", "ts_failed", 0)
    /\ UNCHANGED <<inputs, faults, dashboard, sampler, snapshots, app, filter>>

\* the custom ranges the dashboard is asked for: the last 5 and the last 10 years
CustomRanges == {<<CurrentYear - 5, CurrentYear>>, <<CurrentYear - 10, CurrentYear>>}

\* CoverageAnalysis: activeCoverage for selectedPeriod = custom_<startYear>_<endYear>
SelectCustomRange(startYear, endYear) ==
    /\ pc \in {"node", "ts"}
    /\ selectedPeriod' = <<startYear, endYear>>
    /\ activeCoverage' = AggregateYearData(coverageStats, startYear, endYear)
    /\ UNCHANGED <<inputs, faults, pc, process, outputs, sampler, snapshots, app, filter>>

Next == MainNode \/ MainTs

Spec == Init /\ [][Next]_vars

\* the pipeline run on a catalogue of distinct parts, without sets and inventories files
InitCatalog ==
    /\ colors = <<Red, Blue>>
    /\ parts = <<Brick, Plate>>
    /\ sets = <<>>
    /\ inventories = <<>>
    /\ \E n \in 1..MaxCatalog : inventoryParts = Catalog(n)
    /\ InitNoFault
    /\ InitNoCurve
    /\ InitOutputs
    /\ InitNoSnapshot
    /\ InitDashboard

SpecCatalog == InitCatalog /\ [][Next]_vars

\* the table read from a file: empty when the file is missing
TableOf(file, rows) == IF file \in missingFiles THEN <<>> ELSE rows

\* a run in which any of the input files may be missing and any of the five writes may
\* be the first to throw (failingWrite = 0: none does), on tables of at most one row
InitRun ==
    /\ missingFiles \in SUBSET InputFiles
    /\ failingWrite \in 0..Len(OutputFiles)
    /\ colors = TableOf("colors", <<Red, Blue>>)
    /\ parts = TableOf("parts", <<Brick, Plate>>)
    /\ sets = TableOf("sets", <<SetRow("1-1", DigitsOf(2024), DigitsOf(5)),
                                SetRow("2-1", DigitsOf(2018), DigitsOf(7))>>)
    /\ inventories = TableOf("inventories", <<Inv("10", "1-1"), Inv("20", "2-1")>>)
    /\ \E rows \in {t \in SmallTables : Len(t) <= 1} :
           inventoryParts = TableOf("inventory_parts", rows)
    /\ InitNoCurve
    /\ InitOutputs
    /\ InitNoSnapshot
    /\ InitDashboard

SpecRun == InitRun /\ [][Next]_vars

\* inventories rows: each of two ids with each of two sets
InventoryRows == {Inv(id, num) : id \in InventoryIds, num \in {"1-1", "2-1"}}

\* inventory_parts rows of one part and one colour
RedBrickRows ==
    [inventory_id : InventoryIds, part_num : {"3001"}, color_id : {"4"},
     quantity : {<<"1">>, <<"3">>}, img_url : {""}]

\* the pipeline run on inventories tables of up to MaxInventories rows, in which an id may
\* occur again with another set, and on up to two rows of inventory parts
InitInventories ==
    /\ colors = <<Red, Blue>>
    /\ parts = <<Brick, Plate>>
    /\ sets = <<SetRow("1-1", DigitsOf(2024), DigitsOf(5)),
                SetRow("2-1", DigitsOf(1995), DigitsOf(7))>>
    /\ inventories \in UNION {[1..n -> InventoryRows] : n \in 0..MaxInventories}
    /\ inventoryParts \in UNION {[1..n -> RedBrickRows] : n \in 0..2}
    /\ InitNoFault
    /\ InitNoCurve
    /\ InitOutputs
    /\ InitNoSnapshot
    /\ InitDashboard

SpecInventories == InitInventories /\ [][Next]_vars

\* sets of the years around the starts of the two periods, of next year and of no year
PeriodSets ==
    <<SetRow("1-1", DigitsOf(CurrentYear - 11), DigitsOf(5)),
      SetRow("2-1", DigitsOf(CurrentYear - 10), DigitsOf(5)),
      SetRow("3-1", DigitsOf(CurrentYear - 6), DigitsOf(5)),
      SetRow("4-1", DigitsOf(CurrentYear - 5), DigitsOf(5)),
      SetRow("5-1", DigitsOf(CurrentYear + 1), DigitsOf(5)),
      SetRow("6-1", <<"?">>, DigitsOf(5))>>

\* one inventory per set, and one of a set that is not in the sets table
PeriodInventories ==
    [i \in 1..7 |-> Inv(ToString(10 * i), ToString(i) \o "-1")]

\* inventory_parts rows of these inventories and of an inventory that is not listed
PeriodRows ==
    [inventory_id : {ToString(10 * i) : i \in 1..8}, part_num : PartNums, color_id : {"4"},
     quantity : {<<"1">>, <<"3">>}, img_url : {""}]

\* the pipeline run on up to MaxRows rows of sets of these years
InitPeriods ==
    /\ colors = <<Red, Blue>>
    /\ parts = <<Brick, Plate>>
    /\ sets = PeriodSets
    /\ inventories = PeriodInventories
    /\ inventoryParts \in UNION {[1..n -> PeriodRows] : n \in 0..MaxRows}
    /\ InitNoFault
    /\ InitNoCurve
    /\ InitOutputs
    /\ InitNoSnapshot
    /\ InitDashboard

SpecPeriods == InitPeriods /\ [][Next]_vars

\* the snapshots of inventory_parts delivered: no row, or one row of a red brick
SnapshotTables ==
    {t \in SmallTables : /\ Len(t) <= 1
                         /\ \A i \in 1..Len(t) : t[i].part_num = "3001" /\ t[i].color_id = "4"}

\* a data directory that holds inventory_parts.csv.gz only, before the first run
InitSnapshots ==
    /\ colors = <<Red, Blue>>
    /\ parts = <<Brick, Plate>>
    /\ sets = <<SetRow("1-1", DigitsOf(2024), DigitsOf(5)),
                SetRow("2-1", DigitsOf(2018), DigitsOf(7))>>
    /\ inventories = <<Inv("10", "1-1"), Inv("20", "2-1")>>
    /\ inventoryParts = <<>>
    /\ delivered \in SnapshotTables
    /\ cached = NoCache
    /\ InitNoFault
    /\ InitNoCurve
    /\ InitDashboard
    /\ pc = "idle"
    /\ written = <<>>
    /\ exitCode = NotExited
    /\ errorPrinted = FALSE
    /\ colorStats = NoOutput
    /\ partFrequency = NoOutput
    /\ yearTrends = NoOutput
    /\ coverageStats = NoOutput
    /\ decadeColors = NoOutput
    /\ selectedPeriod = <<>>
    /\ activeCoverage = NoOutput

\* readCSVFile / readGzippedCSV of inventory_parts at the start of a run: the
\* decompressed copy is read when it exists; otherwise the .gz file is decompressed,
\* parsed, and written as the decompressed copy
ReadCSVFile ==
    /\ pc = "idle"
    /\ pc' = "start"
    /\ inventoryParts' = IF cached.present THEN cached.rows ELSE delivered
    /\ cached' = IF cached.present THEN cached ELSE [present |-> TRUE, rows |-> delivered]
    /\ written' = <<>>
    /\ exitCode' = NotExited
    /\ errorPrinted' = FALSE
    /\ UNCHANGED <<colors, parts, sets, inventories, delivered, faults, outputs, dashboard,
                   sampler, app, filter>>

\* between two runs a newer snapshot replaces inventory_parts.csv.gz
DeliverSnapshot(rows) ==
    /\ pc \in {"node", "ts"}
    /\ rows # delivered
    /\ pc' = "idle"
    /\ delivered' = rows
    /\ UNCHANGED <<inputs, cached, faults, process, outputs, dashboard, sampler, app, filter>>

NextSnapshots ==
    \/ ReadCSVFile
    \/ MainNode
    \/ MainTs
    \/ \E rows \in SnapshotTables : DeliverSnapshot(rows)

SpecSnapshots == InitSnapshots /\ [][NextSnapshots]_vars

\* the dashboard alone: the tables and the outputs of the pipeline are not touched
InitApplication ==
    /\ colors = <<>>
    /\ parts = <<>>
    /\ sets = <<>>
    /\ inventories = <<>>
    /\ inventoryParts = <<>>
    /\ InitNoFault
    /\ InitNoCurve
    /\ InitOutputs
    /\ InitNoSnapshot
    /\ InitDashboard

\* the fetches in flight
FetchesInFlight ==
    LET Step(sum, d) == sum + pendingFetches[d]
    IN Fold(Step, <<"parts", "colors", "trends">>, 0)

\* onClick={() => setActiveTableDataset(dataset)} on another dataset, and the effect of
\* the render that follows: setLoading(true) and fetch(TABLE_DATA_FILES[dataset])
ClickDataset(d) ==
    /\ d # activeTableDataset
    /\ FetchesInFlight < MaxFetches
    /\ activeTableDataset' = d
    /\ loading' = TRUE
    /\ pendingFetches' = [pendingFetches EXCEPT ![d] = @ + 1]
    /\ UNCHANGED <<tableData, inputs, faults, pc, process, outputs, dashboard, sampler,
                   snapshots, filter>>

\* .then((json) => { setTableData(...); setLoading(false) }) of a fetch of the file of d
FetchResolved(d) ==
    /\ pendingFetches[d] > 0
    /\ pendingFetches' = [pendingFetches EXCEPT ![d] = @ - 1]
    /\ tableData' = d
    /\ loading' = FALSE
    /\ UNCHANGED <<activeTableDataset, inputs, faults, pc, process, outputs, dashboard,
                   sampler, snapshots, filter>>

\* .catch((err) => { console.error(...); setLoading(false) }) of a fetch of the file of d
FetchRejected(d) ==
    /\ pendingFetches[d] > 0
    /\ pendingFetches' = [pendingFetches EXCEPT ![d] = @ - 1]
    /\ loading' = FALSE
    /\ UNCHANGED <<activeTableDataset, tableData, inputs, faults, pc, process, outputs,
                   dashboard, sampler, snapshots, filter>>

NextApplication ==
    \E d \in TableDatasets : ClickDataset(d) \/ FetchResolved(d) \/ FetchRejected(d)

SpecApplication == InitApplication /\ [][NextApplication]_vars

\* yearRangeToTimePeriod with the first comparison strict
YearRangeToTimePeriodBelow(range, currentYear) ==
    IF currentYear - range.startYear < 5 THEN "last_5_years"
    ELSE IF currentYear - range.startYear <= 10 THEN "last_10_years"
    ELSE "all_time"

\* yearRangeToTimePeriod(yearRange, currentYear)
YearRangeToTimePeriod(range, currentYear) ==
    IF currentYear - range.startYear <= 5 THEN "last_5_years"
    ELSE IF currentYear - range.startYear <= 10 THEN "last_10_years"
    ELSE "all_time"

\* App: selectedPeriod = useMemo(() => yearRangeToTimePeriod(yearRange, currentYear))
AppSelectedPeriod == YearRangeToTimePeriod(yearRange, CurrentYear)

\* the props of DateRangeFilter: those App passes, and a filter that ends 6 years ago
FilterProps ==
    {[minYear |-> 1949, maxYear |-> CurrentYear],
     [minYear |-> 1949, maxYear |-> CurrentYear - 6]}

\* the years picked in the From and To selects, among the options minYear..maxYear
YearChoices ==
    {y \in {filterMinYear, CurrentYear - 11, CurrentYear - 10, CurrentYear - 7,
            CurrentYear - 6, CurrentYear - 5, filterMaxYear} :
        y >= filterMinYear /\ y <= filterMaxYear}

\* DateRangeFilter at its first render, without initialRange or with one of a single year
InitDateRangeFilter ==
    /\ colors = <<>>
    /\ parts = <<>>
    /\ sets = <<>>
    /\ inventories = <<>>
    /\ inventoryParts = <<>>
    /\ InitNoFault
    /\ InitNoCurve
    /\ InitOutputs
    /\ InitNoSnapshot
    /\ InitApp
    /\ \E props \in FilterProps :
           \E first \in {props.minYear, props.maxYear} :
               InitFilter(props.minYear, props.maxYear,
                          [startYear |-> first, endYear |-> props.maxYear])

\* the buttons Last 5 Years, Last 10 Years and All Time
PresetButtons == {"last5", "last10", "allTime"}

\* the range of a preset
PresetRange(preset) ==
    CASE preset = "last5" -> [startYear |-> CurrentYear - 5, endYear |-> filterMaxYear]
      [] preset = "last10" -> [startYear |-> CurrentYear - 10, endYear |-> filterMaxYear]
      [] preset = "allTime" -> [startYear |-> filterMinYear, endYear |-> filterMaxYear]
      [] preset = "custom" -> [startYear |-> customStart, endYear |-> customEnd]

Max(a, b) == IF a >= b THEN a ELSE b

\* handlePresetClick(preset): setActivePreset(preset); onChange(range)
HandlePresetClick(preset) ==
    /\ activePreset' = preset
    /\ yearRange' = PresetRange(preset)
    /\ UNCHANGED <<filterMinYear, filterMaxYear, customStart, customEnd, inputs, faults, pc,
                   process, outputs, dashboard, sampler, snapshots, app>>

\* handleCustomStartChange(year)
HandleCustomStartChange(year) ==
    /\ customStart' = year
    /\ activePreset' = "custom"
    /\ customEnd' = Max(year, customEnd)
    /\ yearRange' = [startYear |-> year, endYear |-> Max(year, customEnd)]
    /\ UNCHANGED <<filterMinYear, filterMaxYear, inputs, faults, pc, process, outputs,
                   dashboard, sampler, snapshots, app>>

\* handleCustomEndChange(year)
HandleCustomEndChange(year) ==
    /\ customEnd' = year
    /\ activePreset' = "custom"
    /\ customStart' = Min(customStart, year)
    /\ yearRange' = [startYear |-> Min(customStart, year), endYear |-> year]
    /\ UNCHANGED <<filterMinYear, filterMaxYear, inputs, faults, pc, process, outputs,
                   dashboard, sampler, snapshots, app>>

NextDateRangeFilter ==
    \/ \E preset \in PresetButtons : HandlePresetClick(preset)
    \/ \E year \in YearChoices : HandleCustomStartChange(year)
    \/ \E year \in YearChoices : HandleCustomEndChange(year)

SpecDateRangeFilter == InitDateRangeFilter /\ [][NextDateRangeFilter]_vars

\* a colours table of n colours
ColorCatalog(n) ==
    [i \in 1..n |-> [id |-> ToString(100 + i), name |-> "Color " \o ToString(i),
                     rgb |-> ToString(100000 + i)]]

\* the quantities of n rows: one piece each; as many pieces as the position of the row;
\* one piece each and four in the last row
QuantityPatterns == {"ones", "steps", "heavy"}
PatternQuantity(pattern, i, n) ==
    CASE pattern = "ones" -> 1
      [] pattern = "steps" -> i
      [] pattern = "heavy" -> IF i = n THEN 4 ELSE 1

\* n rows of n distinct colours, all of one inventory or of two inventories in turn
ColorRows(n, pattern, spread) ==
    [i \in 1..n |-> [inventory_id |-> IF spread /\ i % 2 = 0 THEN "20" ELSE "10",
                     part_num |-> "3001",
                     color_id |-> ToString(100 + i),
                     quantity |-> DigitsOf(PatternQuantity(pattern, i, n)),
                     img_url |-> ""]]

\* the pipeline run on rows of up to MaxDecadeColors colours, in sets of two decades
InitDecade ==
    /\ parts = <<Brick>>
    /\ sets = <<SetRow("1-1", DigitsOf(1995), DigitsOf(5)),
                SetRow("2-1", DigitsOf(2021), DigitsOf(7))>>
    /\ inventories = <<Inv("10", "1-1"), Inv("20", "2-1")>>
    /\ \E n \in 1..MaxDecadeColors, pattern \in QuantityPatterns, spread \in BOOLEAN :
           /\ colors = ColorCatalog(n)
           /\ inventoryParts = ColorRows(n, pattern, spread)
    /\ InitNoFault
    /\ InitNoCurve
    /\ InitOutputs
    /\ InitNoSnapshot
    /\ InitDashboard

SpecDecade == InitDecade /\ [][Next]_vars

\* a curve of n points in rank order, as partsCurve and colorsCurve are built
RankedCurve(n) ==
    [i \in 1..n |-> [rank |-> i, name |-> ToString(i), quantity |-> n + 1 - i,
                     cumulative_percent |-> Percent4(i, n)]]

\* a curve of n points of which two consecutive ones share their rank
PairedCurve(n) ==
    [i \in 1..n |-> [rank |-> (i + 1) \div 2, name |-> ToString(i), quantity |-> n + 1 - i,
                     cumulative_percent |-> Percent4(i, n)]]

\* sampleCurvePoints called on a curve, and on its own result
InitSample ==
    /\ colors = <<>>
    /\ parts = <<>>
    /\ sets = <<>>
    /\ inventories = <<>>
    /\ inventoryParts = <<>>
    /\ InitNoFault
    /\ InitOutputs
    /\ InitNoSnapshot
    /\ InitDashboard
    /\ \E m \in 0..MaxPoints :
           \E n \in 0..(IF m <= FewPoints THEN MaxCurve ELSE m + 1) :
               /\ pointLimit = m
               /\ curveData \in {RankedCurve(n), PairedCurve(n)}
    /\ curveSampled = <<>>
    /\ curveResampled = <<>>

\* parts_curve: sampleCurvePoints(partsCurve), and the same call on the curve it returned
Sample ==
    /\ pc = "start"
    /\ pc' = "sampled"
    /\ LET once == SampleCurvePoints(curveData, pointLimit)
       IN /\ curveSampled' = once
          /\ curveResampled' = SampleCurvePoints(once, pointLimit)
    /\ UNCHANGED <<inputs, faults, process, outputs, dashboard, curveData, pointLimit,
                   snapshots, app, filter>>

NextSample == Sample

SpecSample == InitSample /\ [][NextSample]_vars

\* CoverageCurve, thresholdPoints: the rank of data[data.findIndex(d => d.cumulative_percent
\* >= threshold)], NoMark where findIndex returns -1 (the entry is filtered out)
NoMark == 0
ThresholdPointRank(data, threshold) ==
    LET crossing == {i \in 1..Len(data) : GreaterEq(data[i].cumulative_percent, threshold)}
    IN IF crossing = {} THEN NoMark
       ELSE data[CHOOSE i \in crossing : \A j \in crossing : i <= j].rank

\* the pipeline followed by the dashboard's custom-range selection
NextDashboard ==
    \/ MainNode
    \/ MainTs
    \/ \E r \in CustomRanges : SelectCustomRange(r[1], r[2])

SpecDashboard == Init /\ [][NextDashboard]_vars

----------------------------------------------------------------------------
(* Properties *)

Done == pc \in {"node", "ts"}

\* the data of a period of by_period
Period(k) == MapGet(coverageStats.by_period, k)

\* the ranked lists written: colour and part stats, and the curves of the periods
RankedLists ==
    <<colorStats, partFrequency>>
    \o (IF pc = "ts"
        THEN <<Period("last_5_years").parts_curve, Period("last_5_years").colors_curve,
               Period("last_10_years").parts_curve, Period("last_10_years").colors_curve>>
        ELSE <<>>)

\* the two aggregate lists of the whole table
GlobalLists == <<colorStats, partFrequency>>

\* each coverage data written, with the ranked list it was built from
CoveragePairs ==
    <<[data |-> coverageStats.colors, list |-> colorStats],
      [data |-> coverageStats.parts, list |-> partFrequency]>>
    \o (IF pc = "ts"
        THEN <<[data |-> Period("last_5_years").parts,
                list |-> Period("last_5_years").parts_curve],
               [data |-> Period("last_5_years").colors,
                list |-> Period("last_5_years").colors_curve],
               [data |-> Period("last_10_years").parts,
                list |-> Period("last_10_years").parts_curve],
               [data |-> Period("last_10_years").colors,
                list |-> Period("last_10_years").colors_curve],
               [data |-> Period("all_time").parts, list |-> Period("all_time").parts_curve],
               [data |-> Period("all_time").colors, list |-> Period("all_time").colors_curve]>>
        ELSE <<>>)

\* the sum of the percent values of a list, NaN as soon as one of them is
SumPercent(list) ==
    LET Step(sum, item) == IF sum = NaN \/ item.percent = NaN THEN NaN
                           ELSE sum + item.percent
    IN Fold(Step, list, 0)

\* |v - target| <= tolerance, never true of NaN
Within(v, target, tolerance) ==
    v # NaN /\ v - target <= tolerance /\ target - v <= tolerance

\* 100 percent and the tolerance 0.01, in units of toFixed(4)
Hundred == 100 * Scale4
Tolerance == Scale4 \div 100

\* the parsed quantities of the rows of inventoryParts that satisfy Keep, summed
RowQuantity(Keep(_)) ==
    LET Step(sum, ip) == IF Keep(ip) THEN sum + ParseIntOrZero(ip.quantity) ELSE sum
    IN Fold(Step, inventoryParts, 0)

Rows == 1..Len(inventoryParts)
KnownColor(ip) == MapHas(colorMap, ip.color_id)
KnownPart(ip) == MapHas(partMap, ip.part_num)

C3_PercentSumWithinTolerance ==
    Done => \A n \in 1..Len(GlobalLists) :
                LET list == GlobalLists[n]
                IN Len(list) > 0 => Within(SumPercent(list), Hundred, Tolerance)

(* C3, amended: the percent values of a non-empty colour or part list of N items whose   *)
(* grand total is not 0 sum to within N * 0.00005 of 100 (half a unit of the fourth   *)
(* decimal per item), hence within 0.01 for up to 200 items; when the grand total is  *)
(* 0 every percent is NaN.                                                            *)
C3_PercentSumWithinHalfUnitPerItem ==
    Done => \A n \in 1..Len(GlobalLists) :
                LET list == GlobalLists[n]
                IN Len(list) > 0 =>
                       IF SumQuantity(list) # 0
                       THEN /\ SumPercent(list) # NaN
                            /\ 2 * (SumPercent(list) - Hundred) <= Len(list)
                            /\ 2 * (Hundred - SumPercent(list)) <= Len(list)
                       ELSE \A i \in 1..Len(list) : list[i].percent = NaN

\* more than 200 parts whose percent values sum to more than 100.01
C3_Witness ==
    /\ Done
    /\ Len(partFrequency) > 200
    /\ SumPercent(partFrequency) - Hundred > Tolerance
    /\ 2 * (SumPercent(partFrequency) - Hundred) <= Len(partFrequency)

\* count is the first crossing of threshold in list: the first position whose
\* cumulative_percent reaches it, the length of the list when none does
FirstCrossing(list, threshold, count) ==
    IF \E i \in 1..Len(list) : GreaterEq(list[i].cumulative_percent, threshold)
    THEN /\ count \in 1..Len(list)
         /\ GreaterEq(list[count].cumulative_percent, threshold)
         /\ \A j \in 1..(count - 1) : ~GreaterEq(list[j].cumulative_percent, threshold)
    ELSE count = Len(list)

(* C4: every threshold count written is the smallest count C whose item C reaches the    *)
(* threshold, no earlier item reaching it, and the length of the list (0 for an empty *)
(* list) when no item reaches it.                                                     *)
C4_FirstCrossing ==
    Done => LET pairs == CoveragePairs
            IN \A n \in 1..Len(pairs) : \A k \in ThresholdKeys :
                   FirstCrossing(pairs[n].list, ThresholdValue(k),
                                 pairs[n].data.thresholds[k].count)

\* the first part carries exactly 50%: it is the count of threshold 50, the second part
\* the count of threshold 80
C4_Witness ==
    /\ Done
    /\ Len(partFrequency) = 2
    /\ partFrequency[1].cumulative_percent = ThresholdValue("50")
    /\ coverageStats.parts.thresholds["50"].count = 1
    /\ coverageStats.parts.thresholds["80"].count = 2

(* C5: in every coverage data written, all-time and per period, the count of a lower     *)
(* threshold is at most the count of a higher threshold.                              *)
C5_ThresholdMonotone ==
    Done => LET pairs == CoveragePairs
            IN \A n \in 1..Len(pairs) : \A k1, k2 \in ThresholdKeys :
                   ThresholdLevel(k1) < ThresholdLevel(k2) =>
                       pairs[n].data.thresholds[k1].count
                           <= pairs[n].data.thresholds[k2].count

\* the counts differ between two thresholds, all-time and in a period
C5_Witness ==
    /\ pc = "ts"
    /\ coverageStats.parts.thresholds["50"].count
           < coverageStats.parts.thresholds["80"].count
    /\ Period("last_10_years").parts.thresholds["50"].count
           < Period("last_10_years").parts.thresholds["95"].count

(* C6: no percent and no cumulative_percent written by an aggregation is NaN; with a     *)
(* grand total of 0 the list is empty or its percentages are all 0.                   *)
C6_NoNaN ==
    Done => /\ \A n \in 1..Len(GlobalLists) : \A i \in 1..Len(GlobalLists[n]) :
                   /\ GlobalLists[n][i].percent # NaN
                   /\ GlobalLists[n][i].cumulative_percent # NaN
            /\ LET pairs == CoveragePairs
               IN \A n \in 1..Len(pairs) :
                      /\ \A i \in 1..Len(pairs[n].list) :
                             pairs[n].list[i].cumulative_percent # NaN
                      /\ \A k \in ThresholdKeys :
                             \A i \in 1..Len(pairs[n].data.thresholds[k].items) :
                                 pairs[n].data.thresholds[k].items[i].percent # NaN

(* C7: a row whose color_id is not in the colour map adds its quantity to the entry of   *)
(* its part in part-frequency and adds nothing to color-stats: the colour quantities  *)
(* are those of the rows of known colour, and every colour entry is a known colour.   *)
C7_UnknownColourRow ==
    Done =>
        /\ \A i \in Rows :
               ~KnownColor(inventoryParts[i]) =>
                   LET SamePart(ip) == ip.part_num = inventoryParts[i].part_num
                       quantity == RowQuantity(SamePart)
                   IN \E j \in 1..Len(partFrequency) :
                          /\ partFrequency[j].part_num = inventoryParts[i].part_num
                          /\ partFrequency[j].quantity = quantity
        /\ SumQuantity(colorStats) = RowQuantity(KnownColor)
        /\ \A j \in 1..Len(colorStats) :
               \E i \in Rows :
                   /\ KnownColor(inventoryParts[i])
                   /\ MapGet(colorMap, inventoryParts[i].color_id).name = colorStats[j].name

\* a row of unknown colour with a quantity, counted for its part and for no colour
C7_Witness ==
    /\ Done
    /\ \E i \in Rows : /\ ~KnownColor(inventoryParts[i])
                       /\ ParseIntOrZero(inventoryParts[i].quantity) > 0
    /\ Len(colorStats) = 1
    /\ SumQuantity(colorStats) < SumQuantity(partFrequency)

(* C8, as claimed: a row whose part_num is not in the part map adds no entry and no      *)
(* quantity to part-frequency.                                                        *)
C8_UnknownPartSkipped ==
    Done => /\ \A i \in Rows :
                   ~KnownPart(inventoryParts[i]) =>
                       \A j \in 1..Len(partFrequency) :
                           partFrequency[j].part_num # inventoryParts[i].part_num
            /\ SumQuantity(partFrequency) = RowQuantity(KnownPart)

(* C8, amended: the part aggregator skips no row: a row whose part_num is not in the     *)
(* part map adds its quantity to the entry of its part_num like any other row, and    *)
(* that entry is written with the name "Unknown".                                     *)
C8_UnknownPartCounted ==
    Done => /\ \A i \in Rows :
                   LET SamePart(ip) == ip.part_num = inventoryParts[i].part_num
                       quantity == RowQuantity(SamePart)
                   IN \E j \in 1..Len(partFrequency) :
                          /\ partFrequency[j].part_num = inventoryParts[i].part_num
                          /\ partFrequency[j].quantity = quantity
                          /\ ~KnownPart(inventoryParts[i]) =>
                                 partFrequency[j].name = "Unknown"
            /\ SumQuantity(partFrequency) = RowQuantity(LAMBDA ip : TRUE)

\* a part that the part map lacks ranks first, under the name "Unknown"
C8_Witness ==
    /\ Done
    /\ Len(partFrequency) = 2
    /\ partFrequency[1].name = "Unknown"
    /\ partFrequency[1].quantity > partFrequency[2].quantity
    /\ \E i \in Rows : /\ ~KnownPart(inventoryParts[i])
                       /\ inventoryParts[i].part_num = partFrequency[1].part_num

\* the years >= 1949 that the inventory join reaches, and those of the raw sets table
InventoryJoinedYears ==
    LET invMap == inventoryToSetMap
        smap == setMap
        resolved == [i \in Rows |-> ResolveYear(inventoryParts[i], invMap, smap)]
    IN {y \in {resolved[i].year : i \in {j \in Rows : resolved[j].ok}} : y >= 1949}
RawSetYears ==
    {y \in {ParseInt(sets[i].year).val : i \in
               {j \in 1..Len(sets) : ~ParseInt(sets[j].year).nan}} : y >= 1949}

(* C9: in year-trends every year has exactly one row, tagged inventory or sets_only;     *)
(* the years written are the years >= 1949 of the inventory join and of the raw sets  *)
(* table, and a year is tagged inventory exactly when the inventory join reaches it.  *)
C9_YearSplit ==
    Done => LET joined == InventoryJoinedYears
            IN /\ \A i, j \in 1..Len(yearTrends) :
                      yearTrends[i].year = yearTrends[j].year => i = j
               /\ {yearTrends[i].year : i \in 1..Len(yearTrends)} = joined \cup RawSetYears
               /\ \A i \in 1..Len(yearTrends) :
                      /\ yearTrends[i].data_source \in {"inventory", "sets_only"}
                      /\ yearTrends[i].data_source = "inventory"
                             <=> yearTrends[i].year \in joined

\* an inventory year that the raw sets table holds too, next to a sets-only year
C9_Witness ==
    /\ Done
    /\ \E i, j \in 1..Len(yearTrends) :
           /\ yearTrends[i].data_source = "inventory"
           /\ yearTrends[j].data_source = "sets_only"
           /\ yearTrends[i].year \in RawSetYears
    /\ InventoryJoinedYears \cap RawSetYears # {}

\* a percent of the custom-range path and one of the pipeline are the same number
SamePercent(custom, fractions, piped) ==
    IF fractions
    THEN custom.den # 0 /\ piped # NaN /\ custom.num * Scale4 = piped * custom.den
    ELSE custom = piped

\* the same total_unique, total_quantity and, per threshold, count and items
SameCoverage(custom, fractions, rescan) ==
    /\ custom.total_unique = rescan.total_unique
    /\ custom.total_quantity = rescan.total_quantity
    /\ \A k \in ThresholdKeys :
           LET c == custom.thresholds[k]
               r == rescan.thresholds[k]
           IN /\ c.count = r.count
              /\ Len(c.items) = Len(r.items)
              /\ \A i \in 1..Min(Len(c.items), Len(r.items)) :
                     /\ c.items[i].name = r.items[i].name
                     /\ SamePercent(c.items[i].percent, fractions, r.items[i].percent)
                     /\ SamePercent(c.items[i].cumulative_percent, fractions,
                                    r.items[i].cumulative_percent)

(* C10: the coverage data of the custom-range path for [s, e] equals the data obtained   *)
(* by re-aggregating the raw rows whose year lies in [s, e]; e being the current      *)
(* year, past every year of the tables, that is computePeriodCoverage(s).             *)
C10_CustomRangeEqualsRescan ==
    selectedPeriod # <<>> =>
        LET rescan == ComputePeriodCoverage(selectedPeriod[1])
        IN /\ SameCoverage(activeCoverage.parts, activeCoverage.has_curves, rescan.parts)
           /\ SameCoverage(activeCoverage.colors, activeCoverage.has_curves, rescan.colors)

\* the ranks of a curve, in order
RanksOf(points) == [i \in 1..Len(points) |-> points[i].rank]

\* the properties claimed of a sample of a longer curve whose item i has rank i
SampleOfLonger ==
    /\ \A i \in 1..Len(curveSampled) : \E j \in 1..Len(curveData) :
           curveSampled[i] = curveData[j]
    /\ \E i \in 1..Len(curveSampled) : curveSampled[i].rank = 1
    /\ \E i \in 1..Len(curveSampled) : curveSampled[i].rank = Len(curveData)
    /\ \A i \in 1..(Len(curveSampled) - 1) :
           curveSampled[i].rank < curveSampled[i + 1].rank
    /\ Len(curveSampled) <= pointLimit + 2

\* the curve given to sampleCurvePoints has rank i at position i
RankedInput == RanksOf(curveData) = [i \in 1..Len(curveData) |-> i]

C12_ShortUnchangedAndIdempotent ==
    (pc = "sampled" /\ pointLimit >= 1) =>
        /\ Len(curveData) <= pointLimit => curveSampled = curveData
        /\ curveResampled = curveSampled

(* C12, amended: data of length <= M is returned unchanged; sampling twice gives the     *)
(* same as sampling once whenever the first sample has at most M items, and a first   *)
(* sample of M + 1 items (the M of the loop and the forced last point) can lose       *)
(* points when sampled again.                                                         *)
C12_ShortUnchangedAndIdempotentWhenShort ==
    pc = "sampled" =>
        /\ Len(curveData) <= pointLimit => curveSampled = curveData
        /\ Len(curveSampled) <= pointLimit => curveResampled = curveSampled

\* a curve of exactly M items, which sampling would thin out, comes back whole
C12_Witness ==
    /\ pc = "sampled"
    /\ pointLimit = 6
    /\ Len(curveData) = 6
    /\ curveSampled = curveData
    /\ curveResampled = curveData
    /\ RanksOf(SampleLoop(curveData, pointLimit)) = <<1, 2, 3, 4>>

\* the sum of the percent values of the colours of a decade entry
DecadePercentSum(entry) ==
    LET Step(sum, c) == sum + c.percent
    IN Fold(Step, entry.colors, 0)

\* the index of the decade an entry names
DecadeIndex(entry) == CHOOSE i \in 1..Len(Decades) : Decades[i].decade = entry.decade

\* the number of distinct known colours among the rows that resolve to the i-th decade
DecadeDistinctColors(i) ==
    Cardinality({inventoryParts[r].color_id : r \in
        {j \in Rows : /\ KnownColor(inventoryParts[j])
                      /\ LET y == ResolveYear(inventoryParts[j], inventoryToSetMap, setMap)
                         IN y.ok /\ FindDecade(y.year) = i}})

\* 100 percent in units of toFixed(2)
Hundred2 == 100 * Scale2

(* C13, as claimed: the percent values of the colours of every decade entry sum to at    *)
(* most 100, and to less than 100 only if the decade has more than 10 distinct        *)
(* colours.                                                                           *)
C13_DecadeSumAtMost100 ==
    Done => \A e \in 1..Len(decadeColors) :
                /\ DecadePercentSum(decadeColors[e]) <= Hundred2
                /\ DecadePercentSum(decadeColors[e]) < Hundred2 =>
                       DecadeDistinctColors(DecadeIndex(decadeColors[e])) > 10

(* C13, amended: the percent values of the k colours of a decade entry, each rounded to  *)
(* 2 decimals, sum to at most 100 + k * 0.005; when the decade has at most 10         *)
(* distinct colours all of them are listed and the sum is at least 100 - k * 0.005;   *)
(* with more than 10 colours the 10 largest are listed.                               *)
C13_DecadeSumWithinRounding ==
    Done => \A e \in 1..Len(decadeColors) :
                LET entry == decadeColors[e]
                    sum == DecadePercentSum(entry)
                    distinct == DecadeDistinctColors(DecadeIndex(entry))
                IN /\ 2 * (sum - Hundred2) <= Len(entry.colors)
                   /\ Len(entry.colors) = Min(distinct, 10)
                   /\ distinct <= 10 => 2 * (Hundred2 - sum) <= Len(entry.colors)

\* a decade of three colours that sum to 99.99, and a decade of which 10 colours of 11 are
\* listed is reached as well
C13_Witness ==
    /\ Done
    /\ \E e \in 1..Len(decadeColors) :
           /\ Len(decadeColors[e].colors) = 3
           /\ DecadePercentSum(decadeColors[e]) = Hundred2 - 1

\* for each decade, the summed quantity of the rows of a known colour whose inventory
\* resolves to a set of a year of that decade
DecadeQuantities ==
    LET invMap == inventoryToSetMap
        smap == setMap
        decadeOf == [r \in Rows |->
                        LET y == ResolveYear(inventoryParts[r], invMap, smap)
                        IN IF y.ok /\ KnownColor(inventoryParts[r])
                           THEN FindDecade(y.year) ELSE 0]
        Step(sums, r) == IF decadeOf[r] = 0 THEN sums
                         ELSE [sums EXCEPT ![decadeOf[r]] =
                                  @ + ParseIntOrZero(inventoryParts[r].quantity)]
    IN [sums |-> Fold(Step, [r \in Rows |-> r], [i \in 1..Len(Decades) |-> 0]),
        reached |-> {decadeOf[r] : r \in Rows} \ {0}]

(* C14: decade-colors has an entry for a decade of 1950s..2020s exactly when the summed  *)
(* quantity of the rows resolving to a year of that decade and to a known colour is   *)
(* not 0; no entry has an empty colour list; the entries are in chronological order.  *)
C14_DecadeEmittedIffNonZero ==
    Done => LET quantities == DecadeQuantities.sums
                emitted == [e \in 1..Len(decadeColors) |-> DecadeIndex(decadeColors[e])]
            IN /\ \A e \in 1..Len(decadeColors) :
                      /\ decadeColors[e].decade \in {Decades[i].decade : i \in 1..Len(Decades)}
                      /\ Len(decadeColors[e].colors) > 0
               /\ {emitted[e] : e \in 1..Len(decadeColors)} =
                      {i \in 1..Len(Decades) : quantities[i] # 0}
               /\ \A e \in 1..Len(decadeColors) : \A f \in 1..Len(decadeColors) :
                      e < f => emitted[e] < emitted[f]

\* rows resolve to two decades, the quantity of one of them is 0, and only the other is
\* written
C14_Witness ==
    /\ Done
    /\ Len(decadeColors) = 1
    /\ Cardinality(DecadeQuantities.reached) = 2
    /\ \E i \in DecadeQuantities.reached : DecadeQuantities.sums[i] = 0

\* along a list: the running sum of the quantities, the running sum of the percent values
\* (NaN once a percent is NaN), and whether Holds(item, position, quantities, percents)
\* was true of every item so far
RunningSums(list, Holds(_, _, _, _)) ==
    LET Step(acc, item) ==
            LET q == acc.q + item.quantity
                p == IF acc.p = NaN \/ item.percent = NaN THEN NaN ELSE acc.p + item.percent
            IN [q |-> q, p |-> p, n |-> acc.n + 1,
                ok |-> acc.ok /\ Holds(item, acc.n + 1, q, p)]
    IN Fold(Step, list, [q |-> 0, p |-> 0, n |-> 0, ok |-> TRUE])

(* C15, as claimed: in the colour list and in the part list the cumulative_percent of    *)
(* every item equals the sum of the percent values of the items up to and including   *)
(* it, in rank order.                                                                 *)
C15_CumulativeIsSumOfPercents ==
    Done => \A n \in 1..Len(GlobalLists) :
                LET IsSum(item, i, q, p) == item.cumulative_percent = p
                IN RunningSums(GlobalLists[n], IsSum).ok

(* C15, amended: the cumulative_percent of the item of rank i is the percentage, rounded *)
(* to 4 decimals, of the summed quantities of the items up to rank i in the grand     *)
(* total (NaN when the grand total is 0); it differs from the sum of the i percent    *)
(* values, each rounded on its own, by at most (i + 1) * 0.00005.                      *)
C15_CumulativeIsPercentOfRunningQuantity ==
    Done => \A n \in 1..Len(GlobalLists) :
                LET total == SumQuantity(GlobalLists[n])
                    IsPercentOfSum(item, i, q, p) ==
                        IF total = 0 THEN item.cumulative_percent = NaN /\ p = NaN
                        ELSE /\ item.cumulative_percent = RoundDiv(q * 100 * Scale4, total)
                             /\ p # NaN
                             /\ 2 * (item.cumulative_percent - p) <= i + 1
                             /\ 2 * (p - item.cumulative_percent) <= i + 1
                IN RunningSums(GlobalLists[n], IsPercentOfSum).ok

\* three parts of one piece each: the second cumulative_percent is 66.6667 and the first
\* two percent values sum to 66.6666
C15_Witness ==
    /\ Done
    /\ Len(partFrequency) = 3
    /\ partFrequency[2].cumulative_percent = 666667
    /\ partFrequency[1].percent + partFrequency[2].percent = 666666

\* the run has ended, with or without an error
Exited == pc # "start"
Failed == pc \in {"node_failed", "ts_failed"}

(* C16, as claimed: a run that fails at any step (a read or one of the five writes) has  *)
(* written none of the five output files, and no run ends with only some of the five  *)
(* files written.                                                                     *)
C16_AllOrNothing ==
    Exited => /\ Failed => written = <<>>
              /\ Len(written) \in {0, Len(OutputFiles)}

(* C17, as claimed: when only the sets file, the inventories file or both are missing,   *)
(* the run completes: the five files are written, color-stats and part-frequency as   *)
(* they are computed from the other tables.                                           *)
C17_OptionalFilesDegrade ==
    (Exited /\ missingFiles # {} /\ missingFiles \subseteq {"sets", "inventories"}
            /\ failingWrite = 0)
        => /\ ~Failed
           /\ written = OutputFiles
           /\ colorStats = ComputeColorStats
           /\ partFrequency = ComputePartFrequency

(* C18, as claimed: when colors, parts or inventory_parts cannot be read the run ends     *)
(* with a non-zero exit code, the error printed and no file written; and a run ends   *)
(* with exit code 0 only when all five files were written.                            *)
C18_FatalReadExitsNonZero ==
    Exited => /\ missingFiles \cap TsRequiredFiles # {} =>
                     /\ exitCode # 0
                     /\ errorPrinted
                     /\ written = <<>>
              /\ exitCode = 0 => written = OutputFiles

\* the five values postprocess.ts writes for the tables read
TsOutputs ==
    LET cs == ComputeColorStats
        pf == ComputePartFrequency
    IN <<cs, pf, ComputeYearTrends,
         TsCoverageStats(pf, SumQuantity(pf), cs, SumQuantity(cs)),
         ComputeDecadeColors>>

(* C19, as claimed: after postprocess-node.mjs has run, the five values written are the  *)
(* ones postprocess.ts writes for the same tables, and coverage-stats carries          *)
(* by_period with the keys all_time, last_5_years and last_10_years.                   *)
C19_NodeWritesTsOutputs ==
    pc = "node" =>
        /\ <<colorStats, partFrequency, yearTrends, coverageStats, decadeColors>> = TsOutputs
        /\ coverageStats.has_by_period
        /\ [i \in 1..Len(coverageStats.by_period) |-> coverageStats.by_period[i].key] =
               <<"all_time", "last_5_years", "last_10_years">>

\* the set_num of the first row of the inventories table with this id, "" when none
FirstSetOf(id) ==
    LET hits == {i \in 1..Len(inventories) : inventories[i].id = id}
    IN IF hits = {} THEN ""
       ELSE inventories[CHOOSE i \in hits : \A j \in hits : i <= j].set_num

\* the year of the set of that number, 0 when there is no such set or no such year
YearOfSet(setNum) ==
    LET hits == {i \in 1..Len(sets) : sets[i].set_num = setNum}
    IN IF hits = {} THEN 0
       ELSE LET y == ParseInt(sets[CHOOSE i \in hits : \A j \in hits : i >= j].year)
            IN IF y.nan THEN 0 ELSE y.val

\* per row, the year of the first set of its inventory
FirstSetYears == [r \in Rows |-> YearOfSet(FirstSetOf(inventoryParts[r].inventory_id))]

\* the summed quantity of the rows r with years[r] in the range from lo to hi, of all of
\* them or of those of a known colour only
QuantityOfYears(years, lo, hi, ofKnownColor) ==
    LET Step(sum, r) == IF /\ years[r] >= lo
                           /\ years[r] <= hi
                           /\ ofKnownColor => KnownColor(inventoryParts[r])
                        THEN sum + ParseIntOrZero(inventoryParts[r].quantity) ELSE sum
    IN Fold(Step, [r \in Rows |-> r], 0)

(* C20: every inventory-part row is attributed to the set of the first inventories row   *)
(* with its inventory id, later rows with that id being ignored: year-trends has an   *)
(* inventory row for a year exactly when a row is attributed to a set of that year,   *)
(* with the summed quantity of those rows as total_pieces; the total quantities of    *)
(* the periods (postprocess.ts) are the summed quantities of the rows attributed to   *)
(* the years of the period; a decade is written exactly when the rows of a known      *)
(* colour attributed to its years have a non-zero quantity. Years are those from 1949.*)
C20_FirstInventoryRowWins ==
    Done =>
        LET years == FirstSetYears
            attributed == {y \in {years[r] : r \in Rows} : y >= 1949}
            trends == {t \in {yearTrends[i] : i \in 1..Len(yearTrends)} :
                          t.data_source = "inventory"}
        IN /\ {t.year : t \in trends} = attributed
           /\ \A t \in trends : t.total_pieces = QuantityOfYears(years, t.year, t.year, FALSE)
           /\ pc = "ts" =>
                  /\ Period("last_5_years").parts.total_quantity =
                         QuantityOfYears(years, CurrentYear - 5, CurrentYear + 1000, FALSE)
                  /\ Period("last_10_years").colors.total_quantity =
                         QuantityOfYears(years, CurrentYear - 10, CurrentYear + 1000, TRUE)
           /\ {decadeColors[e].decade : e \in 1..Len(decadeColors)} =
                  {Decades[i].decade : i \in
                      {j \in 1..Len(Decades) :
                          QuantityOfYears(years, Decades[j].startYear,
                                          Decades[j].endYear, TRUE) # 0}}

\* inventory 10 is listed for set 1-1 of 2024 and then for set 2-1 of 1995, and a row of
\* inventory 10 is counted in 2024, in the last 5 years and in the 2020s only
C20_Witness ==
    /\ pc = "ts"
    /\ Len(inventories) >= 2
    /\ inventories[1] = Inv("10", "1-1")
    /\ inventories[2] = Inv("10", "2-1")
    /\ Len(inventoryParts) = 1
    /\ inventoryParts[1].inventory_id = "10"
    /\ Len(yearTrends) = 2
    /\ yearTrends[1].year = 2024
    /\ yearTrends[1].data_source = "inventory"
    /\ yearTrends[2].data_source = "sets_only"
    /\ Period("last_5_years").parts.total_quantity > 0
    /\ Len(decadeColors) = 1
    /\ decadeColors[1].decade = "2020s"

\* the rows of year-trends tagged inventory
InventoryTrends ==
    {t \in {yearTrends[i] : i \in 1..Len(yearTrends)} : t.data_source = "inventory"}

\* the sum of total_pieces over the rows of year-trends tagged inventory
InventoryPieces ==
    LET Step(sum, t) == IF t.data_source = "inventory" THEN sum + t.total_pieces ELSE sum
    IN Fold(Step, yearTrends, 0)

(* C21: for every year Y tagged inventory in year-trends, total_pieces is the sum of the  *)
(* parsed quantities of exactly the rows whose inventory_id maps to a set of the set  *)
(* map with integer year Y >= 1949, and total_sets the number of distinct set numbers *)
(* among those rows; a row with a missing inventory, a missing set, a non-numeric     *)
(* year or a year < 1949 is counted in no year, and the run completes.                *)
C21_YearTotals ==
    Done => LET years == FirstSetYears
            IN /\ \A t \in InventoryTrends :
                      LET rows == {r \in Rows : years[r] = t.year}
                      IN /\ t.year >= 1949
                         /\ t.total_pieces = QuantityOfYears(years, t.year, t.year, FALSE)
                         /\ t.total_sets =
                                Cardinality({FirstSetOf(inventoryParts[r].inventory_id) :
                                                r \in rows})
               /\ InventoryPieces = QuantityOfYears(years, 1949, CurrentYear + 1000, FALSE)

\* a row of 3 pieces whose set has no year is counted nowhere, next to a row counted in
\* its year
C21_Witness ==
    /\ Done
    /\ Len(inventoryParts) = 2
    /\ FirstSetYears[1] >= 1949
    /\ FirstSetYears[2] = 0
    /\ FirstSetOf(inventoryParts[2].inventory_id) # ""
    /\ ParseIntOrZero(inventoryParts[1].quantity) = 1
    /\ ParseIntOrZero(inventoryParts[2].quantity) = 3
    /\ InventoryPieces = 1

\* among the rows of the year y, the key (the part number, or the colour id of the rows
\* of a known colour) with the largest summed quantity: of several with that quantity
\* the one whose first row comes last, or comes first; "" when no quantity is above 0
\* and the first is asked for
TopOfYear(years, y, byColor, last) ==
    LET rows == {r \in Rows : /\ years[r] = y
                              /\ byColor => KnownColor(inventoryParts[r])}
        KeyOf(r) == IF byColor THEN inventoryParts[r].color_id
                    ELSE inventoryParts[r].part_num
        keys == {KeyOf(r) : r \in rows}
        Quantity(k) ==
            LET Step(sum, r) == IF r \in rows /\ KeyOf(r) = k
                                THEN sum + ParseIntOrZero(inventoryParts[r].quantity)
                                ELSE sum
            IN Fold(Step, [r \in Rows |-> r], 0)
        quantities == [k \in keys |-> Quantity(k)]
        First(k) == CHOOSE r \in rows :
                        KeyOf(r) = k /\ \A q \in rows : KeyOf(q) = k => r <= q
        ties == {k \in keys : \A j \in keys : quantities[k] >= quantities[j]}
    IN IF keys = {} \/ (~last /\ \A k \in keys : quantities[k] = 0) THEN ""
       ELSE IF last THEN CHOOSE k \in ties : \A j \in ties : First(k) >= First(j)
       ELSE CHOOSE k \in ties : \A j \in ties : First(k) <= First(j)

\* the top_color and top_color_hex written for the colour id k
TopColorName(k) == IF MapHas(colorMap, k) /\ MapGet(colorMap, k).name # ""
                   THEN MapGet(colorMap, k).name ELSE "Unknown"
TopColorHex(k) == IF MapHas(colorMap, k) THEN "#" \o MapGet(colorMap, k).rgb ELSE "#000000"

(* C22, as claimed: for every year tagged inventory, top_part and top_color are the keys *)
(* with the maximal accumulated quantity of that year, and of several keys that tie   *)
(* for the maximum the one scanned last is reported.                                  *)
C22_TopIsLastMaximum ==
    Done => LET years == FirstSetYears
            IN \A t \in InventoryTrends :
                   /\ t.top_part = TopOfYear(years, t.year, FALSE, TRUE)
                   /\ t.top_color_hex = TopColorHex(TopOfYear(years, t.year, TRUE, TRUE))

(* C22, amended: top_part and top_color are the keys with the maximal accumulated       *)
(* quantity of the year, and of several keys that tie for the maximum the one scanned *)
(* first (the one whose first row comes first) is reported; when no key of the year   *)
(* has a quantity above 0, top_part is "" and top_color is Unknown with #000000.      *)
C22_TopIsFirstMaximum ==
    Done => LET years == FirstSetYears
            IN \A t \in InventoryTrends :
                   LET topColor == TopOfYear(years, t.year, TRUE, FALSE)
                   IN /\ t.top_part = TopOfYear(years, t.year, FALSE, FALSE)
                      /\ t.top_color = TopColorName(topColor)
                      /\ t.top_color_hex = TopColorHex(topColor)

\* two parts and two colours of one piece each in one year: the first of each is reported
C22_Witness ==
    /\ Done
    /\ Len(inventoryParts) = 2
    /\ inventoryParts[1].part_num # inventoryParts[2].part_num
    /\ inventoryParts[1].color_id # inventoryParts[2].color_id
    /\ KnownColor(inventoryParts[1]) /\ KnownColor(inventoryParts[2])
    /\ inventoryParts[1].quantity = <<"1">>
    /\ inventoryParts[2].quantity = <<"1">>
    /\ \E t \in InventoryTrends :
           /\ t.total_pieces = 2
           /\ t.top_part = inventoryParts[1].part_num
           /\ t.top_color = MapGet(colorMap, inventoryParts[1].color_id).name

\* the rows r with years[r] in the range from lo to hi
RowsOfYears(years, lo, hi) == {r \in Rows : years[r] >= lo /\ years[r] <= hi}

\* the period entry aggregates exactly the rows of the years from lo to hi: the total
\* quantities and the numbers of distinct parts and colours are those of these rows
AggregatesYears(entry, years, lo, hi) ==
    LET rows == RowsOfYears(years, lo, hi)
    IN /\ entry.parts.total_quantity = QuantityOfYears(years, lo, hi, FALSE)
       /\ entry.parts.total_unique = Cardinality({inventoryParts[r].part_num : r \in rows})
       /\ entry.colors.total_quantity = QuantityOfYears(years, lo, hi, TRUE)
       /\ entry.colors.total_unique =
              Cardinality({inventoryParts[r].color_id :
                              r \in {q \in rows : KnownColor(inventoryParts[q])}})

\* a year after every year of the tables
NoLastYear == CurrentYear + 1000

(* C23, as claimed: last_5_years and last_10_years of by_period aggregate exactly the     *)
(* rows whose resolved set year lies in the last 5, respectively 10, years up to the  *)
(* current year, and no row whose inventory, set or year cannot be resolved.          *)
C23_PeriodUpToCurrentYear ==
    pc = "ts" =>
        LET years == FirstSetYears
        IN /\ AggregatesYears(Period("last_5_years"), years, CurrentYear - 5, CurrentYear)
           /\ AggregatesYears(Period("last_10_years"), years, CurrentYear - 10, CurrentYear)

(* C23, amended: last_5_years and last_10_years aggregate exactly the rows whose          *)
(* resolved set year is at least the current year - 5, respectively - 10, with no     *)
(* upper limit (rows of sets dated after the current year are counted), and no row    *)
(* whose inventory, set or year cannot be resolved; the rows of last_5_years are      *)
(* among those of last_10_years.                                                      *)
C23_PeriodFromStartYear ==
    pc = "ts" =>
        LET years == FirstSetYears
        IN /\ AggregatesYears(Period("last_5_years"), years, CurrentYear - 5, NoLastYear)
           /\ AggregatesYears(Period("last_10_years"), years, CurrentYear - 10, NoLastYear)
           /\ RowsOfYears(years, CurrentYear - 5, NoLastYear) \subseteq
                  RowsOfYears(years, CurrentYear - 10, NoLastYear)

\* a row of the first year of the 5-year period is counted in both periods, a row of the
\* year before it in the 10-year period only
C23_Witness ==
    /\ pc = "ts"
    /\ Len(inventoryParts) = 2
    /\ FirstSetYears[1] = CurrentYear - 5
    /\ FirstSetYears[2] = CurrentYear - 6
    /\ Period("last_5_years").parts.total_quantity = 1
    /\ Period("last_10_years").parts.total_quantity = 4

\* the first row of inventoryParts with the part number of a part-frequency item, and the
\* first row whose colour has the name and the rgb of a colour-stats item
FirstRowOfPart(item) ==
    LET rows == {r \in Rows : inventoryParts[r].part_num = item.part_num}
    IN CHOOSE r \in rows : \A q \in rows : r <= q
FirstRowOfColor(item) ==
    LET rows == {r \in Rows :
                    /\ KnownColor(inventoryParts[r])
                    /\ LET color == MapGet(colorMap, inventoryParts[r].color_id)
                       IN color.name = item.name /\ "#" \o color.rgb = item.color}
    IN CHOOSE r \in rows : \A q \in rows : r <= q

(* C24: in color-stats and part-frequency two items of equal summed quantity appear in   *)
(* the order in which their grouping keys first appear in the inventory-part rows.    *)
C24_TiesInFirstAppearanceOrder ==
    Done => /\ \A i \in 1..Len(partFrequency) : \A j \in 1..Len(partFrequency) :
                   (i < j /\ partFrequency[i].quantity = partFrequency[j].quantity)
                       => FirstRowOfPart(partFrequency[i]) < FirstRowOfPart(partFrequency[j])
            /\ \A i \in 1..Len(colorStats) : \A j \in 1..Len(colorStats) :
                   (i < j /\ colorStats[i].quantity = colorStats[j].quantity)
                       => FirstRowOfColor(colorStats[i]) < FirstRowOfColor(colorStats[j])

\* two parts and two colours of 3 pieces each, the part 3023 and the colour Blue in the
\* first row: they are listed first
C24_Witness ==
    /\ Done
    /\ Len(inventoryParts) = 2
    /\ inventoryParts[1].part_num = "3023"
    /\ Len(partFrequency) = 2
    /\ partFrequency[1].quantity = 3
    /\ partFrequency[2].quantity = 3
    /\ partFrequency[1].part_num = "3023"
    /\ Len(colorStats) = 2
    /\ colorStats[1].quantity = colorStats[2].quantity
    /\ colorStats[1].name = "Blue"
    /\ inventoryParts[1].color_id = "1"

(* C25: grouping conserves quantity: the quantities of the part-frequency items sum to   *)
(* parts.total_quantity of coverage-stats and to the sum of the parsed quantities     *)
(* (0 where unparsable) of all the rows; those of the color-stats items sum to        *)
(* colors.total_quantity and to that sum over the rows of a known colour; hence       *)
(* colors.total_quantity <= parts.total_quantity.                                     *)
C25_QuantityConserved ==
    Done => LET ofAll == RowQuantity(LAMBDA ip : TRUE)
                ofKnownColor == RowQuantity(KnownColor)
            IN /\ SumQuantity(partFrequency) = ofAll
               /\ coverageStats.parts.total_quantity = ofAll
               /\ SumQuantity(colorStats) = ofKnownColor
               /\ coverageStats.colors.total_quantity = ofKnownColor
               /\ coverageStats.colors.total_quantity <= coverageStats.parts.total_quantity

\* two rows of one part, of 1 and of 3 pieces, grouped into one item of 4 pieces, of which
\* the row of 3 pieces has no known colour
C25_Witness ==
    /\ Done
    /\ Len(inventoryParts) = 2
    /\ Len(partFrequency) = 1
    /\ partFrequency[1].quantity = 4
    /\ coverageStats.parts.total_quantity = 4
    /\ coverageStats.colors.total_quantity = 1

(* C26, as claimed: every run aggregates the snapshot delivered at the time: when a       *)
(* newer inventory_parts.csv.gz has replaced the one an earlier run decompressed, the *)
(* outputs of the next run are computed from the rows of the new snapshot.            *)
C26_RunAggregatesDeliveredSnapshot ==
    Done => /\ inventoryParts = delivered
            /\ partFrequency = ComputePartFrequency
            /\ colorStats = ComputeColorStats

\* a fetch started for the dataset d settles in this step
Settles(d) == pendingFetches'[d] < pendingFetches[d]

(* C27, as claimed: the response to a fetch started for a dataset that is no longer the  *)
(* selected one never replaces the table data and never clears the loading flag of   *)
(* the current selection.                                                             *)
C27_StaleResponseIgnored ==
    [][\A d \in TableDatasets :
           (Settles(d) /\ d # activeTableDataset)
               => (tableData' = tableData /\ loading' = loading)]_vars

(* C28, as claimed: from customStart <= customEnd and minYear <= maxYear, after any       *)
(* sequence of preset clicks and From / To changes, the range passed to onChange has  *)
(* startYear <= endYear, and customStart <= customEnd.                                *)
C28_RangeOrdered ==
    /\ yearRange.startYear <= yearRange.endYear
    /\ customStart <= customEnd

\* the period the claim assigns to a start year
PeriodOfStart(startYear) ==
    CASE CurrentYear - startYear <= 5 -> "last_5_years"
      [] CurrentYear - startYear > 5 /\ CurrentYear - startYear <= 10 -> "last_10_years"
      [] OTHER -> "all_time"

\* the filter has the props App gives it
AppProps == filterMinYear = 1949 /\ filterMaxYear = CurrentYear

(* C30: yearRangeToTimePeriod returns last_5_years iff currentYear - startYear <= 5,      *)
(* last_10_years iff that difference is above 5 and at most 10, all_time otherwise,   *)
(* whatever endYear is; so with minYear 1949 and maxYear the current year the ranges  *)
(* of the presets Last 5 Years, Last 10 Years and All Time select the periods         *)
(* last_5_years, last_10_years and all_time.                                          *)
C30_PresetSelectsPeriod ==
    /\ AppSelectedPeriod = PeriodOfStart(yearRange.startYear)
    /\ \A endYear \in YearChoices \cup {CurrentYear + 1} :
           YearRangeToTimePeriod([yearRange EXCEPT !.endYear = endYear], CurrentYear) =
               AppSelectedPeriod
    /\ AppProps =>
           /\ activePreset = "last5" => AppSelectedPeriod = "last_5_years"
           /\ activePreset = "last10" => AppSelectedPeriod = "last_10_years"
           /\ activePreset = "allTime" => AppSelectedPeriod = "all_time"

\* in App, Last 10 Years was clicked after a custom range: the range starts 10 years back
\* and selects last_10_years
C30_Witness ==
    /\ AppProps
    /\ activePreset = "last10"
    /\ customStart = CurrentYear - 6
    /\ yearRange = [startYear |-> CurrentYear - 10, endYear |-> CurrentYear]
    /\ AppSelectedPeriod = "last_10_years"

(* C29, as claimed: for a ranked sequence longer than M and each threshold of 50, 80,    *)
(* 90, 95, 99, the rank of the first point of the sampled curve whose                 *)
(* cumulative_percent reaches the threshold, which CoverageCurve marks, equals the    *)
(* count findThresholdIndex returns on the full sequence.                             *)
C29_MarkedRankIsThresholdCount ==
    (pc = "sampled" /\ RankedInput /\ Len(curveData) > pointLimit) =>
        \A k \in ThresholdKeys :
            ThresholdPointRank(curveSampled, ThresholdValue(k)) =
                FindThresholdIndex(curveData, ThresholdValue(k))

====
